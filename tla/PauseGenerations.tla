-------------------------- MODULE PauseGenerations --------------------------
(***************************************************************************)
(* The pauses of one agent: who sets them, who lifts them, and what the    *)
(* servers' caches and the reviews believe of them.                        *)
(*                                                                         *)
(* The status of an agent is kept twice in PostgreSQL (core.agents and     *)
(* core.identities) and once more in the cache of every server.  A pause   *)
(* carries a token, `paused_at', that names its generation; the circuit    *)
(* breaker, the TTL, the safety net and a resolved review compare it under *)
(* the row locks of both copies (db/mixins/identity.py).  A resume or an   *)
(* archival writes the copies one by one and compares nothing.             *)
(***************************************************************************)
EXTENDS Naturals

CONSTANTS
    Servers,     \* server processes, each with its own cache
    Jobs,        \* slots for the requests and tasks in flight
    Sessions,    \* dialectic sessions opened on the agent
    MaxGen,      \* bound: pauses the circuit breaker orders
    NoGen,       \* no token
    NoOne,       \* no server, no claimant, no session
    Kinds,       \* the kinds of job that occur
    Lossy        \* whether the answer of a database call may be lost

Gens == 1 .. MaxGen
AllKinds == {"pause", "ttl", "net", "effect", "resume", "archive"}

ASSUME GensAssumption == MaxGen \in Nat /\ NoGen \notin Gens
ASSUME KindsAssumption == Kinds \subseteq AllKinds /\ Lossy \in BOOLEAN
ASSUME NoOneAssumption == NoOne \notin Servers \cup Jobs \cup Sessions

VARIABLES
    row,        \* core.agents.status, core.identities.status and paused_at
    cache,      \* cache[s]: the agent's metadata in server s
    job,        \* job[t]: a request or background task
    sess,       \* sess[d]: a session and the outbox row of its effect; the
                \* claimant is the owner of a row in state applying
    next,       \* the next token, `now'
    committed,  \* history: the tokens that were durable
    degraded    \* tokens of pauses enforced in memory only

vars == <<row, cache, job, sess, next, committed, degraded>>

Status == {"active", "paused", "archived"}
Token == Gens \cup {NoGen}
Row == [agents : Status, ident : Status, token : Token]
Cached == [status : Status, token : Token]
Replies == {"applied", "superseded", "reused", "refused"}
Steps == {"idle", "call", "publish", "settle", "agents", "ident", "mirror", "clear"}
Job == [kind : AllKinds, at : Steps, server : Servers \cup {NoOne}, gen : Token,
        session : Sessions \cup {NoOne}, reply : Replies \cup {"none", "lost"},
        seen : Token]
Session == [bound : Token, claimant : Jobs \cup {NoOne}, manual : BOOLEAN,
            state : {"none", "open", "pending", "applying", "unknown", "applied"}]

Idle == [kind |-> "pause", at |-> "idle", server |-> NoOne, gen |-> NoGen,
         session |-> NoOne, reply |-> "none", seen |-> NoGen]
Unopened == [bound |-> NoGen, claimant |-> NoOne, manual |-> FALSE, state |-> "none"]

TypeOK ==
    /\ row \in Row
    /\ cache \in [Servers -> Cached]
    /\ job \in [Jobs -> Job]
    /\ sess \in [Sessions -> Session]
    /\ next \in 1 .. MaxGen + 1
    /\ committed \in SUBSET Gens
    /\ degraded \in SUBSET Gens

Init ==
    /\ row = [agents |-> "active", ident |-> "active", token |-> NoGen]
    /\ cache = [s \in Servers |-> [status |-> "active", token |-> NoGen]]
    /\ job = [t \in Jobs |-> Idle]
    /\ sess = [d \in Sessions |-> Unopened]
    /\ next = 1
    /\ committed = {}
    /\ degraded = {}

-----------------------------------------------------------------------------
(* The durable transitions.  Each locks both copies, decides and commits.   *)

\* The generation the agent is paused under; split copies have none.
InForce(r) == IF r.agents = "paused" /\ r.ident = "paused" THEN r.token ELSE NoGen

Terminal(r) == "archived" \in {r.agents, r.ident}

Released == [agents |-> "active", ident |-> "active", token |-> NoGen]

\* Fault: a split pause is mended under the token it still carries.
Installs_KeepsToken(r, g, reply, r2) ==
    \/ Terminal(r) /\ reply = "refused" /\ r2 = r
    \/ InForce(r) # NoGen /\ reply = "reused" /\ r2 = r
    \/ /\ ~Terminal(r) /\ InForce(r) = NoGen
       /\ reply = "applied"
       /\ r2 = [agents |-> "paused", ident |-> "paused",
                token |-> IF r.token # NoGen THEN r.token ELSE g]

\* pause_agent_with_token: a split or tokenless pause is replaced, a pause with
\* a token is left alone and its token returned.
Installs(r, g, reply, r2) ==
    \/ Terminal(r) /\ reply = "refused" /\ r2 = r
    \/ InForce(r) # NoGen /\ reply = "reused" /\ r2 = r
    \/ /\ ~Terminal(r) /\ InForce(r) = NoGen
       /\ reply = "applied"
       /\ r2 = [agents |-> "paused", ident |-> "paused", token |-> g]

\* Fault: the pause is resumed whatever its generation.
Consumes_AnyGen(r, g, reply, r2) ==
    \/ r.agents # r.ident /\ reply = "refused" /\ r2 = r
    \/ r.agents = r.ident /\ InForce(r) = NoGen /\ reply = "superseded" /\ r2 = r
    \/ InForce(r) # NoGen /\ reply = "applied" /\ r2 = Released

\* resume_agent_if_pause_token.
Consumes(r, g, reply, r2) ==
    \/ r.agents # r.ident /\ reply = "refused" /\ r2 = r
    \/ r.agents = r.ident /\ InForce(r) # g /\ reply = "superseded" /\ r2 = r
    \/ InForce(r) = g /\ reply = "applied" /\ r2 = Released

\* expire_pause_if_token: matching active copies win over a stale token, and a
\* split of the expected generation is mended.
Expirable(r, g) ==
    \/ r.agents = "active" /\ r.ident = "active"
    \/ ~Terminal(r) /\ r.token = g

Expires(r, g, reply, r2) ==
    \/ Expirable(r, g) /\ reply = "applied" /\ r2 = Released
    \/ /\ ~Expirable(r, g) /\ r2 = r
       /\ reply = IF InForce(r) # NoGen THEN "superseded" ELSE "refused"

Answers(kind, r, g, reply, r2) ==
    \/ kind = "pause" /\ Installs(r, g, reply, r2)
    \/ kind = "ttl" /\ Expires(r, g, reply, r2)
    \/ kind \in {"net", "effect"} /\ Consumes(r, g, reply, r2)

-----------------------------------------------------------------------------
(* Jobs that carry a token: one database call, then what is made of it.     *)

Begin(t, j) ==
    /\ job[t] = Idle
    /\ j.kind \in Kinds
    /\ job' = [job EXCEPT ![t] = j]

Ended(t) == job' = [job EXCEPT ![t] = Idle]

\* The circuit breaker takes `now' for a token; the agent's lock lets one
\* check-in of it at a time get here, past a gate it may have read long ago.
StartPause(t, s) ==
    /\ next \in Gens
    /\ \A u \in Jobs : job[u].at # "idle" => job[u].kind # "pause"
    /\ Begin(t, [Idle EXCEPT !.kind = "pause", !.at = "call", !.server = s, !.gen = next])
    /\ next' = next + 1
    /\ UNCHANGED <<row, cache, sess, committed, degraded>>

\* A gate finds a pause past its TTL, or every review of it has failed.
StartLift(t, s) ==
    /\ cache[s].status = "paused"
    /\ cache[s].token # NoGen
    /\ \E kind \in {"ttl", "net"} :
           Begin(t, [Idle EXCEPT !.kind = kind, !.at = "call", !.server = s,
                                 !.gen = cache[s].token])
    /\ UNCHANGED <<row, cache, sess, next, committed, degraded>>

\* A breaker and a TTL job keep the token they were refused for.
Replied(t, reply) ==
    job' = [job EXCEPT ![t] =
        [@ EXCEPT !.at = "publish", !.reply = reply,
                  !.seen = IF reply = "reused" \/ (job[t].kind = "ttl" /\ reply = "superseded")
                           THEN row.token ELSE NoGen]]

Call(t) ==
    /\ job[t].at = "call"
    /\ \/ \E reply \in Replies :
             /\ Answers(job[t].kind, row, job[t].gen, reply, row')
             /\ Replied(t, reply) \/ (Lossy /\ Replied(t, "lost"))
       \/ Lossy /\ UNCHANGED row /\ Replied(t, "lost")
    /\ committed' = committed \cup ({row'.token} \ {NoGen})
    /\ UNCHANGED <<cache, sess, next, degraded>>

\* Fault: the breaker publishes its own token whatever the database holds.
PausedToken_Own(j) == j.gen

\* The token the circuit breaker publishes: its own, or the one it met.
PausedToken(j) == IF j.reply = "reused" THEN j.seen ELSE j.gen

PublishPause(t) ==
    LET j == job[t] IN
    /\ j.kind = "pause" /\ j.at = "publish"
    /\ cache' = [cache EXCEPT ![j.server] = [status |-> "paused", token |-> PausedToken(j)]]
    /\ degraded' = degraded \cup (IF j.reply \in {"refused", "lost"} THEN {j.gen} ELSE {})
    /\ Ended(t)
    /\ UNCHANGED <<row, sess, next, committed>>

Lifted == [status |-> "active", token |-> NoGen]

\* Fault: the cache is not looked at again after the call.
StillShows_Unchecked(c, j) == TRUE

\* The cache still shows the pause the call was about.  A review's effect also
\* lifts a pause without a token, an invalid snapshot.
StillShows(c, j) ==
    /\ c.status = "paused"
    /\ c.token = j.gen \/ (j.kind = "effect" /\ c.token = NoGen)

\* The cache entry after the answer of a lift.  The TTL job also takes over the
\* newer token it was refused for.
AfterLift(c, j) ==
    IF j.reply = "applied" /\ StillShows(c, j) THEN Lifted
    ELSE IF j.kind = "ttl" /\ j.reply = "superseded" /\ c.token = j.gen
         THEN [c EXCEPT !.token = j.seen] ELSE c

PublishLift(t) ==
    LET j == job[t] IN
    /\ j.kind \in {"ttl", "net", "effect"} /\ j.at = "publish"
    /\ cache' = [cache EXCEPT ![j.server] = AfterLift(@, j)]
    /\ \/ j.kind = "effect" /\ job' = [job EXCEPT ![t].at = "settle"]
       \/ j.kind # "effect" /\ Ended(t)
    /\ UNCHANGED <<row, sess, next, committed, degraded>>

-----------------------------------------------------------------------------
(* Jobs that compare nothing: agent resume and self-recovery, archival.     *)

StartResume(t, s) ==
    /\ cache[s].status \in {"paused", "active"}
    /\ Begin(t, [Idle EXCEPT !.kind = "resume", !.at = "agents", !.server = s])
    /\ UNCHANGED <<row, cache, sess, next, committed, degraded>>

StartArchive(t, s) ==
    /\ Begin(t, [Idle EXCEPT !.kind = "archive", !.at = "ident", !.server = s])
    /\ UNCHANGED <<row, cache, sess, next, committed, degraded>>

\* Fault: the name of the lifecycle event is written for the status.
StatusWritten_Event(kind) == IF kind = "resume" THEN "resumed" ELSE "archived"

StatusWritten(kind) == IF kind = "resume" THEN "active" ELSE "archived"

\* A resume writes core.agents first, an archival core.identities.
StepAfter(kind, at) ==
    IF kind = "resume" THEN IF at = "agents" THEN "ident" ELSE "mirror"
    ELSE IF at = "ident" THEN "agents" ELSE "mirror"

Moved(t, at) == job' = [job EXCEPT ![t].at = at]

\* update_agent_fields swallows its errors; those of the other call end the job
\* (Drop).
WriteStatus(t) ==
    LET j == job[t] IN
    /\ j.at \in {"agents", "ident"}
    /\ \/ /\ j.at = "agents"
          /\ row' = [row EXCEPT !.agents = StatusWritten(j.kind)]
       \/ Lossy /\ j.at = "agents" /\ UNCHANGED row
       \/ /\ j.at = "ident"
          /\ row' = [row EXCEPT !.ident = StatusWritten(j.kind)]
    /\ Moved(t, StepAfter(j.kind, j.at))
    /\ UNCHANGED <<cache, sess, next, committed, degraded>>

\* mirror_status_to_dict.
Mirror(t) ==
    LET j == job[t] IN
    /\ j.at = "mirror"
    /\ cache' = [cache EXCEPT ![j.server].status = StatusWritten(j.kind)]
    /\ \/ j.kind = "resume" /\ Moved(t, "clear")
       \/ j.kind = "archive" /\ Ended(t)
    /\ UNCHANGED <<row, sess, next, committed, degraded>>

\* persist_runtime_state(paused_at=None).
ClearToken(t) ==
    /\ job[t].at = "clear"
    /\ row' = [row EXCEPT !.token = NoGen]
    /\ Moved(t, "publish")
    /\ UNCHANGED <<cache, sess, next, committed, degraded>>

PublishResume(t) ==
    LET j == job[t] IN
    /\ j.kind = "resume" /\ j.at = "publish"
    /\ cache' = [cache EXCEPT ![j.server] = Lifted]
    /\ Ended(t)
    /\ UNCHANGED <<row, sess, next, committed, degraded>>

-----------------------------------------------------------------------------
(* Reviews.  The decision and the outbox row of its effect are one commit.  *)

\* read_authoritative_pause_binding refuses split copies and a lost token.
OpenSession(d) ==
    /\ sess[d].state = "none"
    /\ row.agents = row.ident
    /\ row.agents = "paused" => row.token # NoGen
    /\ sess' = [sess EXCEPT ![d] = [@ EXCEPT !.state = "open", !.bound = InForce(row)]]
    /\ UNCHANGED <<row, cache, job, next, committed, degraded>>

\* A session opened on no pause is recorded as an effect already applied.
Resolve(d) ==
    /\ sess[d].state = "open"
    /\ sess' = [sess EXCEPT ![d].state = IF sess[d].bound = NoGen THEN "applied" ELSE "pending"]
    /\ UNCHANGED <<row, cache, job, next, committed, degraded>>

\* Fault: an effect whose outcome is unknown is tried again.
Claimable_Unknown(e) == e.state \in {"pending", "unknown"}

Claimable(e) == e.state = "pending"

\* claim_resolution_effect, by the resolving request or an operator's
\* apply_pending.
ClaimEffect(t, s, d) ==
    /\ Claimable(sess[d])
    /\ Begin(t, [Idle EXCEPT !.kind = "effect", !.at = "call", !.server = s,
                             !.gen = sess[d].bound, !.session = d])
    /\ sess' = [sess EXCEPT ![d] = [@ EXCEPT !.state = "applying", !.claimant = t]]
    /\ UNCHANGED <<row, cache, next, committed, degraded>>

\* Fault: a refusal is taken for the end of the generation.
Settles_Refused(reply) == reply \in {"applied", "superseded", "refused"}

\* The answers that prove the reviewed generation over.
Settles(reply) == reply \in {"applied", "superseded"}

\* complete_ and fail_resolution_effect change the row of their own claim only.
Marked(t, state) ==
    LET d == job[t].session IN
    sess' = IF sess[d].claimant = t
            THEN [sess EXCEPT ![d] = [@ EXCEPT !.state = state, !.claimant = NoOne]]
            ELSE sess

SettleEffect(t) ==
    /\ job[t].at = "settle"
    /\ \/ Settles(job[t].reply) /\ Marked(t, "applied")
       \/ (Lossy \/ ~Settles(job[t].reply)) /\ Marked(t, "unknown")
       \/ Lossy /\ UNCHANGED sess
    /\ Ended(t)
    /\ UNCHANGED <<row, cache, next, committed, degraded>>

\* mark_uncertain, by an operator who believes the claimant dead.
Quarantine(d) ==
    /\ sess[d].state = "applying"
    /\ sess' = [sess EXCEPT ![d] = [@ EXCEPT !.state = "unknown", !.claimant = NoOne]]
    /\ UNCHANGED <<row, cache, job, next, committed, degraded>>

\* mark_applied, after a repair by hand.
Acknowledge(d) ==
    /\ sess[d].state = "unknown"
    /\ sess' = [sess EXCEPT ![d] = [@ EXCEPT !.state = "applied", !.manual = TRUE]]
    /\ UNCHANGED <<row, cache, job, next, committed, degraded>>

-----------------------------------------------------------------------------

\* A request is cancelled or one of its calls raises.
Drop(t) ==
    /\ Lossy
    /\ job[t] # Idle
    /\ Ended(t)
    /\ UNCHANGED <<row, cache, sess, next, committed, degraded>>

\* A server dies and loads its cache from core.identities.
Restart(s) ==
    /\ Lossy
    /\ cache' = [cache EXCEPT ![s] = [status |-> row.ident, token |-> row.token]]
    /\ job' = [t \in Jobs |-> IF job[t].server = s THEN Idle ELSE job[t]]
    /\ UNCHANGED <<row, sess, next, committed, degraded>>

Next ==
    \/ \E t \in Jobs, s \in Servers :
          \/ StartPause(t, s) \/ StartLift(t, s) \/ StartResume(t, s) \/ StartArchive(t, s)
          \/ \E d \in Sessions : ClaimEffect(t, s, d)
    \/ \E t \in Jobs :
          \/ Call(t) \/ PublishPause(t) \/ PublishLift(t) \/ SettleEffect(t)
          \/ WriteStatus(t) \/ Mirror(t) \/ ClearToken(t) \/ PublishResume(t)
          \/ Drop(t)
    \/ \E d \in Sessions : OpenSession(d) \/ Resolve(d) \/ Quarantine(d) \/ Acknowledge(d)
    \/ \E s \in Servers : Restart(s)

Spec == Init /\ [][Next]_vars

-----------------------------------------------------------------------------
(* What must hold.                                                         *)

\* An effect recorded as applied, and not by an operator's word, is about a
\* generation neither copy pauses the agent under any more, whatever was lost,
\* raced or restarted on the way (resolution.py: a refusal is not a success).
AppliedMeansOver ==
    \A d \in Sessions :
        sess[d].state = "applied" /\ ~sess[d].manual /\ sess[d].bound # NoGen =>
            ~(row.token = sess[d].bound /\ "paused" \in {row.agents, row.ident})

\* However requests, operators and restarts follow each other, an effect never
\* has two workers (dialectic_db_queries.py: one live claimant, no replay).
OneWorkerPerEffect ==
    \A t, u \in Jobs :
        job[t].session # NoOne /\ job[t].session = job[u].session => t = u

\* A token in a cache was durable, or its pause was reported as enforced in
\* memory only: no server invents a generation that recovery could not find
\* (agent_loop_detection.py: publishing `now' would invent one).
CachedTokensAccountedFor ==
    \A s \in Servers : cache[s].token \in committed \cup degraded \cup {NoGen}

\* No job that carries a token lets an agent go in a server that shows the pause
\* in force: what ends with an older generation leaves the newer one alone.
\* Resumes, archivals and their mirrors do not ask.
ShownPauseStays ==
    [][\A s \in Servers :
         (/\ cache[s].status = "paused"
          /\ cache[s].token = InForce(row) /\ InForce(row) # NoGen
          /\ cache'[s].status # "paused")
         => \E t \in Jobs : /\ job[t].kind \in {"resume", "archive"}
                            /\ job[t].server = s
                            /\ job'[t] # job[t]]_vars

\* A verdict lifts the pause its session was opened on and no later one, however
\* long the review took (resume_agent_if_pause_token: one exact generation).
VerdictLiftsItsOwnPause ==
    [][\A t \in Jobs :
         (/\ job[t].session # NoOne /\ job'[t] # job[t]
          /\ InForce(row) # InForce(row'))
         => InForce(row) = sess[job[t].session].bound]_vars

\* With no request in flight, an agent whom its only server takes for active is
\* not paused in the database (lifecycle/helpers.py: the persist-first resume
\* keeps the drift between database and memory from reappearing).
ResumeLeavesNoDrift ==
    (\A t \in Jobs : job[t] = Idle) =>
        \A s \in Servers :
            cache[s].status = "active" => ~(row.agents = "paused" /\ row.ident = "paused")

\* A session and the outbox row of its effect, seen as one review.
Review == [d \in Sessions |->
    [on |-> sess[d].bound,
     state |-> IF sess[d].state = "none" THEN "none"
               ELSE IF sess[d].state # "applied" THEN "open"
               ELSE IF sess[d].manual THEN "repaired" ELSE "settled"]]

\* The pauses and their reviews as ReviewedPause has them.
R == INSTANCE ReviewedPause WITH
    inforce <- InForce(row), ended <- committed \ {InForce(row)}, review <- Review

\* The code implements the abstract pauses: one generation in force, none that
\* comes back, no review settled before its generation is over.  This is R!Spec, with
\* the steps that stutter told first.
RefinesReviewedPause == R!Init /\ [][UNCHANGED R!vars \/ R!Next]_vars
=============================================================================
