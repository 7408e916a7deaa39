----------------------- MODULE PauseGenerationsProofs -----------------------
(***************************************************************************)
(* Safety of PauseGenerations for any number of servers, jobs, sessions    *)
(* and pauses, and its refinement of ReviewedPause.                        *)
(***************************************************************************)
EXTENDS PauseGenerations, TLAPS

Lifts == {"ttl", "net", "effect"}

\* Neither copy pauses the agent under g.
Over(r, g) == ~(r.token = g /\ "paused" \in {r.agents, r.ident})

\* Every token anybody holds was durable or is reported as not durable.
TokensKnown ==
    /\ row.token \in committed \cup {NoGen}
    /\ \A g \in committed \cup degraded : g < next
    /\ \A s \in Servers : cache[s].token \in committed \cup degraded \cup {NoGen}
    /\ \A d \in Sessions : sess[d].bound \in committed \cup {NoGen}
    /\ \A t \in Jobs :
          /\ job[t].seen \in committed \cup {NoGen}
          /\ job[t].kind \in Lifts => job[t].gen \in committed \cup degraded
          /\ job[t].kind = "pause" /\ job[t].at = "publish" =>
                \/ job[t].reply = "applied" /\ job[t].gen \in committed
                \/ job[t].reply \in {"reused", "refused", "lost"}

\* One check-in orders a pause at a time, under a token of its own.
FreshPause ==
    \A t \in Jobs : job[t].kind = "pause" /\ job[t].at # "idle" =>
        /\ job[t].gen \in Gens /\ job[t].gen < next
        /\ job[t].at = "call" => job[t].gen \notin committed \cup degraded
        /\ \A u \in Jobs : job[u].kind = "pause" /\ job[u].at # "idle" => u = t

\* A lift that succeeded, or a review's that came too late, leaves nothing of
\* its generation.
LiftsDone ==
    \A t \in Jobs :
        /\ job[t].kind \in Lifts
        /\ job[t].at \in {"publish", "settle"}
        /\ job[t].reply = "applied" \/ (job[t].kind = "effect" /\ job[t].reply = "superseded")
        => Over(row, job[t].gen)

\* An effect is claimed once, and works on what its session was opened on.
EffectsOwned ==
    /\ \A t \in Jobs :
          /\ job[t].kind = "effect" \/ job[t].at = "settle" =>
                job[t].kind = "effect" /\ job[t].session # NoOne
          /\ job[t].session # NoOne =>
                /\ job[t].kind = "effect" /\ job[t].at # "idle"
                /\ job[t].gen = sess[job[t].session].bound
                /\ sess[job[t].session].state \in {"applying", "unknown", "applied"}
    /\ \A d \in Sessions :
          /\ sess[d].claimant # NoOne => sess[d].state = "applying"
          /\ sess[d].manual => sess[d].state = "applied"
          /\ sess[d].state \in {"pending", "applying", "unknown"} => sess[d].bound # NoGen

\* Only the jobs that compare nothing write the copies one by one.
UncasSteps ==
    \A t \in Jobs :
        /\ job[t].at \in {"agents", "ident", "mirror", "clear"} => job[t].kind \in {"resume", "archive"}
        /\ job[t].at = "call" => job[t].kind \in Lifts \cup {"pause"}

IInv == /\ TypeOK /\ TokensKnown /\ FreshPause /\ LiftsDone /\ EffectsOwned
        /\ UncasSteps /\ OneWorkerPerEffect /\ AppliedMeansOver

LEMMA Nulls == /\ \A g \in Gens : g # NoGen
               /\ NoOne \notin Servers \cup Jobs \cup Sessions
BY GensAssumption, NoOneAssumption
LEMMA InForceIn ==
    TypeOK => InForce(row) \in Token /\ InForce(row) \in {row.token, NoGen}
BY DEF TypeOK, Row, Token, InForce

LEMMA SessionOf ==
    TypeOK => \A t \in Jobs : job[t].session # NoOne => job[t].session \in Sessions
BY DEF TypeOK, Job

LEMMA JobMoved ==
    ASSUME TypeOK, NEW t \in Jobs, NEW at \in Steps, Moved(t, at)
    PROVE  /\ job' \in [Jobs -> Job]
           /\ job'[t] = [job[t] EXCEPT !.at = at]
           /\ \A u \in Jobs : u # t => job'[u] = job[u]
BY DEF TypeOK, Job, Moved

LEMMA JobEnded ==
    ASSUME TypeOK, NEW t \in Jobs, Ended(t)
    PROVE  /\ job' \in [Jobs -> Job]
           /\ job'[t] = Idle
           /\ \A u \in Jobs : u # t => job'[u] = job[u]
BY DEF TypeOK, Job, Ended, Idle, Steps, AllKinds, Token

LEMMA JobBegun ==
    ASSUME TypeOK, NEW t \in Jobs, NEW j \in Job, Begin(t, j)
    PROVE  /\ job' \in [Jobs -> Job]
           /\ job[t] = Idle /\ job'[t] = j
           /\ \A u \in Jobs : u # t => job'[u] = job[u]
BY DEF TypeOK, Begin

LEMMA StartPauseStep == ASSUME IInv, NEW t \in Jobs, NEW s \in Servers, StartPause(t, s) PROVE IInv'
<1> USE Nulls DEF IInv, StartPause
<1> DEFINE j == [Idle EXCEPT !.kind = "pause", !.at = "call", !.server = s, !.gen = next]
<1>1. j \in Job /\ Begin(t, j)
  BY DEF TypeOK, Idle, Job, Steps, AllKinds, Token
<1>a. /\ j.kind = "pause" /\ j.at = "call" /\ j.gen = next
      /\ j.seen = NoGen /\ j.session = NoOne
  BY DEF Idle
<1> HIDE DEF j
<1>2. /\ job' \in [Jobs -> Job] /\ job[t] = Idle
      /\ job'[t].kind = "pause" /\ job'[t].at = "call" /\ job'[t].gen = next
      /\ job'[t].seen = NoGen /\ job'[t].session = NoOne
      /\ \A u \in Jobs : u # t => job'[u] = job[u]
  BY <1>1, <1>a, JobBegun
<1>3. next' \in 1 .. MaxGen + 1 /\ next' = next + 1
  BY GensAssumption DEF TypeOK, Gens
<1>4. \A g \in committed \cup degraded : g < next /\ g < next'
  BY <1>3, GensAssumption DEF TokensKnown, TypeOK, Gens
<1>5. TypeOK' /\ TokensKnown'
  BY <1>2, <1>3, <1>4 DEF TypeOK, TokensKnown, Lifts
<1>6. FreshPause'
  <2>1. \A u \in Jobs : job[u].kind = "pause" => job[u].at = "idle"
    OBVIOUS
  <2>2. next < next' /\ next \in Gens /\ next \notin committed \cup degraded
    BY <1>3, <1>4, GensAssumption DEF TypeOK, Gens
  <2> QED BY <1>2, <2>1, <2>2 DEF FreshPause
<1>7. LiftsDone'
  BY <1>2 DEF LiftsDone, Over, Lifts
<1>8. EffectsOwned' /\ UncasSteps' /\ OneWorkerPerEffect' /\ AppliedMeansOver'
  BY <1>2 DEF EffectsOwned, UncasSteps, OneWorkerPerEffect, AppliedMeansOver
<1> QED BY <1>5, <1>6, <1>7, <1>8

LEMMA StartLiftStep == ASSUME IInv, NEW t \in Jobs, NEW s \in Servers, StartLift(t, s) PROVE IInv'
<1> USE Nulls DEF IInv, StartLift
<1>1. PICK kind \in {"ttl", "net"} :
          Begin(t, [Idle EXCEPT !.kind = kind, !.at = "call", !.server = s, !.gen = cache[s].token])
  OBVIOUS
<1> DEFINE j == [Idle EXCEPT !.kind = kind, !.at = "call", !.server = s, !.gen = cache[s].token]
<1>2. j \in Job /\ Begin(t, j)
  BY <1>1 DEF TypeOK, Idle, Job, Steps, AllKinds, Token, Cached
<1>a. /\ j.kind = kind /\ j.at = "call" /\ j.gen = cache[s].token
      /\ j.seen = NoGen /\ j.session = NoOne
  BY DEF Idle
<1> HIDE DEF j
<1>3. /\ job' \in [Jobs -> Job] /\ job[t] = Idle
      /\ job'[t].kind = kind /\ job'[t].at = "call" /\ job'[t].gen = cache[s].token
      /\ job'[t].seen = NoGen /\ job'[t].session = NoOne
      /\ \A u \in Jobs : u # t => job'[u] = job[u]
  BY <1>2, <1>a, JobBegun
<1>4. TypeOK' /\ TokensKnown'
  BY <1>3 DEF TypeOK, TokensKnown, Lifts
<1>5. FreshPause' /\ LiftsDone'
  BY <1>3 DEF FreshPause, LiftsDone, Over
<1>6. EffectsOwned'
  BY <1>3 DEF EffectsOwned
<1>7. UncasSteps' /\ OneWorkerPerEffect' /\ AppliedMeansOver'
  BY <1>3 DEF UncasSteps, OneWorkerPerEffect, AppliedMeansOver, Lifts
<1> QED BY <1>4, <1>5, <1>6, <1>7

LEMMA StartResumeStep == ASSUME IInv, NEW t \in Jobs, NEW s \in Servers, StartResume(t, s) PROVE IInv'
<1> USE Nulls DEF IInv, StartResume, Begin, Idle
<1>a. row' \in Row /\ cache' \in [Servers -> Cached]
  BY DEF TypeOK, Row, Cached, Status, Token
<1>b. job' \in [Jobs -> Job]
  BY DEF TypeOK, Job, Steps, Replies, AllKinds, Token, Cached, Row, Session
<1>c. sess' \in [Sessions -> Session]
  BY DEF TypeOK, Session
<1>d. next' \in 1 .. MaxGen + 1 /\ committed' \in SUBSET Gens /\ degraded' \in SUBSET Gens
  BY GensAssumption DEF TypeOK, Gens, Job, Token, Row
<1>1. TypeOK'
  BY <1>a, <1>b, <1>c, <1>d DEF TypeOK
<1>2. TokensKnown'
  BY DEF TokensKnown, Lifts, TypeOK, Job, Session, Token, Row, Cached
<1>3. FreshPause'
  BY DEF FreshPause, TypeOK, Job, Session, Token, Row, Cached
<1>4. LiftsDone'
  BY DEF LiftsDone, Over, Lifts, TokensKnown, TypeOK, Job, Session, Token, Row, Cached
<1>5. EffectsOwned'
  BY DEF EffectsOwned, TypeOK, Job, Session, Token, Row, Cached
<1>6. UncasSteps'
  BY DEF UncasSteps, Lifts, StatusWritten, TypeOK, Job, Session, Token, Row, Cached
<1>7. OneWorkerPerEffect'
  BY DEF OneWorkerPerEffect, EffectsOwned, TypeOK, Job, Session, Token, Row, Cached
<1>8. AppliedMeansOver'
  BY DEF AppliedMeansOver, Over, TypeOK, Job, Session, Token, Row, Cached
<1> QED BY <1>1, <1>2, <1>3, <1>4, <1>5, <1>6, <1>7, <1>8

LEMMA StartArchiveStep == ASSUME IInv, NEW t \in Jobs, NEW s \in Servers, StartArchive(t, s) PROVE IInv'
<1> USE Nulls DEF IInv, StartArchive, Begin, Idle
<1>a. row' \in Row /\ cache' \in [Servers -> Cached]
  BY DEF TypeOK, Row, Cached, Status, Token
<1>b. job' \in [Jobs -> Job]
  BY DEF TypeOK, Job, Steps, Replies, AllKinds, Token, Cached, Row, Session
<1>c. sess' \in [Sessions -> Session]
  BY DEF TypeOK, Session
<1>d. next' \in 1 .. MaxGen + 1 /\ committed' \in SUBSET Gens /\ degraded' \in SUBSET Gens
  BY GensAssumption DEF TypeOK, Gens, Job, Token, Row
<1>1. TypeOK'
  BY <1>a, <1>b, <1>c, <1>d DEF TypeOK
<1>2. TokensKnown'
  BY DEF TokensKnown, Lifts, TypeOK, Job, Session, Token, Row, Cached
<1>3. FreshPause'
  BY DEF FreshPause, TypeOK, Job, Session, Token, Row, Cached
<1>4. LiftsDone'
  BY DEF LiftsDone, Over, Lifts, TokensKnown, TypeOK, Job, Session, Token, Row, Cached
<1>5. EffectsOwned'
  BY DEF EffectsOwned, TypeOK, Job, Session, Token, Row, Cached
<1>6. UncasSteps'
  BY DEF UncasSteps, Lifts, StatusWritten, TypeOK, Job, Session, Token, Row, Cached
<1>7. OneWorkerPerEffect'
  BY DEF OneWorkerPerEffect, EffectsOwned, TypeOK, Job, Session, Token, Row, Cached
<1>8. AppliedMeansOver'
  BY DEF AppliedMeansOver, Over, TypeOK, Job, Session, Token, Row, Cached
<1> QED BY <1>1, <1>2, <1>3, <1>4, <1>5, <1>6, <1>7, <1>8

LEMMA ClaimEffectStep ==
    ASSUME IInv, NEW t \in Jobs, NEW s \in Servers, NEW d \in Sessions, ClaimEffect(t, s, d)
    PROVE  IInv'
<1> USE Nulls DEF IInv, ClaimEffect, Claimable
<1> DEFINE j == [Idle EXCEPT !.kind = "effect", !.at = "call", !.server = s,
                             !.gen = sess[d].bound, !.session = d]
<1>1. j \in Job /\ Begin(t, j)
  BY DEF TypeOK, Idle, Job, Steps, AllKinds, Token, Session
<1>a. /\ j.kind = "effect" /\ j.at = "call" /\ j.gen = sess[d].bound
      /\ j.seen = NoGen /\ j.session = d
  BY DEF Idle
<1> HIDE DEF j
<1>2. /\ job' \in [Jobs -> Job] /\ job[t] = Idle
      /\ job'[t].kind = "effect" /\ job'[t].at = "call" /\ job'[t].gen = sess[d].bound
      /\ job'[t].seen = NoGen /\ job'[t].session = d
      /\ \A u \in Jobs : u # t => job'[u] = job[u]
  BY <1>1, <1>a, JobBegun
<1>3. /\ sess' \in [Sessions -> Session] /\ sess[d].state = "pending"
      /\ sess'[d].state = "applying" /\ sess'[d].bound = sess[d].bound
      /\ sess'[d].manual = sess[d].manual
      /\ \A e \in Sessions : e # d => sess'[e] = sess[e]
  BY DEF TypeOK, Session
<1>4. sess[d].bound \in committed
  BY <1>3 DEF EffectsOwned, TokensKnown
<1>5. TypeOK'
  BY <1>2, <1>3 DEF TypeOK
<1>6. TokensKnown'
  BY <1>2, <1>3, <1>4 DEF TokensKnown, Lifts
<1>7. FreshPause' /\ LiftsDone'
  BY <1>2 DEF FreshPause, LiftsDone, Over
<1>8. EffectsOwned' /\ UncasSteps' /\ OneWorkerPerEffect'
  <2>1. \A u \in Jobs : job[u].session # d
    BY <1>3 DEF EffectsOwned
  <2>2. EffectsOwned'
    BY <1>2, <1>3, <2>1 DEF EffectsOwned
  <2>3. UncasSteps' /\ OneWorkerPerEffect'
    BY <1>2, <2>1 DEF UncasSteps, OneWorkerPerEffect, Lifts
  <2> QED BY <2>2, <2>3
<1>9. AppliedMeansOver'
  BY <1>3 DEF AppliedMeansOver
<1> QED BY <1>5, <1>6, <1>7, <1>8, <1>9

LEMMA CallStep == ASSUME IInv, NEW t \in Jobs, Call(t) PROVE IInv'
<1> USE Nulls DEF IInv
<1>1. PICK answer \in Replies, reply \in Replies \cup {"lost"} :
        /\ job[t].at = "call" /\ Replied(t, reply)
        /\ \/ Answers(job[t].kind, row, job[t].gen, answer, row') /\ reply \in {answer, "lost"}
           \/ row' = row /\ reply = "lost"
        /\ committed' = committed \cup ({row'.token} \ {NoGen})
        /\ UNCHANGED <<cache, sess, next, degraded>>
  BY DEF Call, Replies
<1> DEFINE seen == IF reply = "reused" \/ (job[t].kind = "ttl" /\ reply = "superseded")
                    THEN row.token ELSE NoGen
<1>2. /\ job' \in [Jobs -> Job]
      /\ job'[t] = [job[t] EXCEPT !.at = "publish", !.reply = reply, !.seen = seen]
      /\ \A u \in Jobs : u # t => job'[u] = job[u]
  <2>1. seen \in Token
    BY DEF TypeOK, Row, Token
  <2>2. [job[t] EXCEPT !.at = "publish", !.reply = reply, !.seen = seen] \in Job
    BY ZenonT(30), <2>1 DEF TypeOK, Job, Steps
  <2> QED BY <1>1, <2>2 DEF Replied, TypeOK
<1>3. job[t] \in Job
  BY DEF TypeOK
<1>4. job[t].kind \in Lifts \cup {"pause"}
  BY <1>1 DEF UncasSteps, Lifts
<1>5. /\ row' \in Row
      /\ \/ row' = row \/ row' = Released
         \/ /\ job[t].kind = "pause" /\ reply \in {"applied", "lost"}
            /\ row' = [agents |-> "paused", ident |-> "paused", token |-> job[t].gen]
  BY <1>1, <1>3, <1>4 DEF Answers, Installs, Consumes, Expires, Released, Row, Status,
     TypeOK, Job, Token, Lifts
<1>6. row'.token \in Token /\ row'.token \in committed \cup {NoGen, job[t].gen}
  BY <1>5 DEF Row, TokensKnown, Released
<1>7. committed' \in SUBSET Gens
  BY <1>1, <1>6 DEF TypeOK, Token
<1>8. /\ job[t].kind = "pause" /\ reply = "applied" => job[t].gen \in committed'
      /\ job[t].kind = "pause" => reply \in {"applied", "reused", "refused", "lost"}
      /\ seen \in committed \cup {NoGen}
  BY <1>1, <1>4 DEF Answers, Installs, TokensKnown, Lifts, FreshPause
<1>9. committed' \subseteq committed \cup {job[t].gen} /\ committed \subseteq committed'
      /\ (job[t].kind # "pause" => committed' = committed)
  BY <1>1, <1>4, <1>5, <1>6 DEF TokensKnown, Released, Lifts
<1>10. TypeOK'
  BY <1>1, <1>2, <1>5, <1>7 DEF TypeOK
<1>a. /\ job'[t].kind = job[t].kind /\ job'[t].gen = job[t].gen
      /\ job'[t].at = "publish" /\ job'[t].session = job[t].session
      /\ job'[t].reply = reply /\ job'[t].seen = seen
      /\ \A u \in Jobs : u # t => job'[u] = job[u]
  BY <1>2, <1>3 DEF Job
<1> HIDE DEF seen
<1>11. TokensKnown'
  <2>1. \A g \in committed' \cup degraded' : g < next'
    BY <1>1, <1>9 DEF TokensKnown, FreshPause
  <2>2. row'.token \in committed' \cup {NoGen}
    BY <1>1
  <2>3. \A u \in Jobs : /\ job'[u].seen \in committed' \cup {NoGen}
                        /\ job'[u].kind \in Lifts => job'[u].gen \in committed' \cup degraded'
    BY <1>1, <1>a, <1>8, <1>9 DEF TokensKnown
  <2>4. \A u \in Jobs : job'[u].kind = "pause" /\ job'[u].at = "publish" =>
            \/ job'[u].reply = "applied" /\ job'[u].gen \in committed'
            \/ job'[u].reply \in {"reused", "refused", "lost"}
    BY <1>1, <1>a, <1>8, <1>9 DEF TokensKnown
  <2>5. /\ \A s \in Servers : cache'[s].token \in committed' \cup degraded' \cup {NoGen}
        /\ \A d \in Sessions : sess'[d].bound \in committed' \cup {NoGen}
    BY <1>1, <1>9 DEF TokensKnown
  <2> QED BY <2>1, <2>2, <2>3, <2>4, <2>5 DEF TokensKnown
<1>12. FreshPause'
  <2>2. \A u \in Jobs : u # t /\ job[u].kind = "pause" /\ job[u].at # "idle" => committed' = committed
    BY <1>1, <1>9 DEF FreshPause
  <2> QED
    <3> SUFFICES ASSUME NEW u \in Jobs, job'[u].kind = "pause", job'[u].at # "idle"
        PROVE  /\ job'[u].gen \in Gens /\ job'[u].gen < next'
               /\ job'[u].at = "call" => job'[u].gen \notin committed' \cup degraded'
               /\ \A v \in Jobs : job'[v].kind = "pause" /\ job'[v].at # "idle" => v = u
      BY DEF FreshPause
    <3>1. job[u].kind = "pause" /\ job[u].at # "idle" /\ job'[u].gen = job[u].gen
      BY <1>1, <1>a
    <3>2. \A v \in Jobs : job'[v].kind = "pause" /\ job'[v].at # "idle" => v = u
      BY <1>1, <1>a, <3>1 DEF FreshPause
    <3>3. job'[u].at = "call" => u # t /\ job[u].at = "call"
      BY <1>1, <1>a
    <3> QED BY <1>1, <2>2, <3>1, <3>2, <3>3 DEF FreshPause
<1>13. \A g \in committed \cup degraded : Over(row, g) => Over(row', g)
  <2>1. job[t].kind = "pause" => job[t].gen \notin committed \cup degraded
    BY <1>1 DEF FreshPause
  <2> QED BY <1>5, <2>1 DEF Over, Released
<1>14. LiftsDone'
  <2>1. job[t].kind \in Lifts /\ reply = "applied" => Over(row', job[t].gen)
    BY <1>1, <1>4, <1>8 DEF Answers, Consumes, Expires, Released, Over, Lifts
  <2>2. job[t].kind = "effect" /\ reply = "superseded" => Over(row', job[t].gen)
    <3> SUFFICES ASSUME job[t].kind = "effect", reply = "superseded" PROVE Over(row', job[t].gen)
      OBVIOUS
    <3>1. Consumes(row, job[t].gen, "superseded", row')
      BY <1>1 DEF Answers
    <3>2. row' = row /\ row.agents = row.ident /\ InForce(row) # job[t].gen
      BY <3>1 DEF Consumes
    <3> QED BY <3>2 DEF InForce, Over
  <2>3. ASSUME NEW u \in Jobs, u # t, job[u].kind \in Lifts, Over(row, job[u].gen)
        PROVE  Over(row', job[u].gen)
    BY <1>13, <2>3 DEF TokensKnown
  <2> QED BY <1>1, <1>a, <2>1, <2>2, <2>3 DEF LiftsDone
<1>15. EffectsOwned' /\ UncasSteps' /\ OneWorkerPerEffect'
  <2>2. EffectsOwned'
    BY <1>1, <1>a DEF EffectsOwned
  <2>3. UncasSteps' /\ OneWorkerPerEffect'
    BY <1>1, <1>a DEF UncasSteps, OneWorkerPerEffect
  <2> QED BY <2>2, <2>3
<1>16. AppliedMeansOver'
  <2>1. \A d \in Sessions : sess[d].bound # NoGen => sess[d].bound \in committed
    BY DEF TokensKnown
  <2> QED BY <1>1, <1>13, <2>1 DEF AppliedMeansOver, Over
<1> QED BY <1>10, <1>11, <1>12, <1>14, <1>15, <1>16

LEMMA PublishPauseStep == ASSUME IInv, NEW t \in Jobs, PublishPause(t) PROVE IInv'
<1> USE Nulls DEF IInv, PublishPause
<1>1. /\ job' \in [Jobs -> Job] /\ job'[t] = Idle
      /\ \A u \in Jobs : u # t => job'[u] = job[u]
  BY JobEnded
<1>2. job[t].gen \in Gens /\ job[t].gen < next
  BY DEF FreshPause
<1>3. degraded' \in SUBSET Gens /\ degraded' \subseteq degraded \cup {job[t].gen}
  BY <1>2 DEF TypeOK
<1>4. PausedToken(job[t]) \in committed \cup degraded' \cup {NoGen}
  <2>1. CASE job[t].reply = "applied" \/ job[t].reply = "reused"
    BY <2>1 DEF TokensKnown, PausedToken
  <2>2. CASE job[t].reply \in {"refused", "lost"}
    BY <2>2 DEF PausedToken
  <2> QED BY <2>1, <2>2 DEF TokensKnown
<1>5. /\ cache' \in [Servers -> Cached]
      /\ \A s \in Servers : cache'[s] = cache[s] \/ cache'[s].token = PausedToken(job[t])
  <2>1. PausedToken(job[t]) \in Token
    BY <1>3, <1>4 DEF TypeOK, Token
  <2> QED BY <2>1 DEF TypeOK, Cached, Status
<1>6. TypeOK'
  BY <1>1, <1>3, <1>5 DEF TypeOK
<1>7. TokensKnown'
  <2>1. \A g \in committed' \cup degraded' : g < next'
    BY <1>2, <1>3 DEF TokensKnown
  <2>2. degraded \subseteq degraded'
    OBVIOUS
  <2> QED BY <1>1, <1>4, <1>5, <2>1, <2>2 DEF TokensKnown, Idle, Lifts
<1>8. FreshPause'
  BY <1>1, <1>3 DEF FreshPause, Idle
<1>9. LiftsDone' /\ AppliedMeansOver'
  BY <1>1 DEF LiftsDone, Over, Idle, AppliedMeansOver
<1>10. EffectsOwned' /\ UncasSteps' /\ OneWorkerPerEffect'
  BY <1>1 DEF EffectsOwned, UncasSteps, OneWorkerPerEffect, Idle
<1> QED BY <1>6, <1>7, <1>8, <1>9, <1>10

LEMMA LiftedEntry ==
    ASSUME TypeOK, NEW c \in Cached, NEW j \in Job
    PROVE  AfterLift(c, j) \in Cached /\ AfterLift(c, j).token \in {c.token, j.seen, NoGen}
BY DEF AfterLift, Lifted, Cached, Job, Token, Status

LEMMA PublishLiftStep == ASSUME IInv, NEW t \in Jobs, PublishLift(t) PROVE IInv'
<1> USE Nulls DEF IInv, PublishLift
<1>1. /\ job' \in [Jobs -> Job]
      /\ \A u \in Jobs : u # t => job'[u] = job[u]
      /\ \/ job'[t] = Idle /\ job[t].kind # "effect"
         \/ job'[t] = [job[t] EXCEPT !.at = "settle"] /\ job[t].kind = "effect"
  BY JobEnded, JobMoved DEF Moved, Steps
<1>2. /\ cache' \in [Servers -> Cached]
      /\ \A s \in Servers :
            cache'[s].token \in {cache[s].token, job[t].seen, NoGen}
  BY LiftedEntry DEF TypeOK
<1>3. job[t] \in Job
  BY DEF TypeOK
<1>4. TypeOK'
  BY <1>1, <1>2 DEF TypeOK
<1>5. TokensKnown'
  BY <1>1, <1>2, <1>3 DEF TokensKnown, Idle, Lifts, Job
<1>6. FreshPause'
  BY <1>1, <1>3 DEF FreshPause, Idle, Job
<1>7. LiftsDone' /\ AppliedMeansOver'
  BY <1>1, <1>3 DEF LiftsDone, Over, Idle, Job, AppliedMeansOver
<1>8. EffectsOwned' /\ UncasSteps' /\ OneWorkerPerEffect'
  BY <1>1, <1>3 DEF EffectsOwned, UncasSteps, OneWorkerPerEffect, Idle, Job
<1> QED BY <1>4, <1>5, <1>6, <1>7, <1>8

LEMMA SettleEffectStep == ASSUME IInv, NEW t \in Jobs, SettleEffect(t) PROVE IInv'
<1> USE Nulls DEF IInv, SettleEffect
<1> DEFINE d == job[t].session
<1>1. /\ job' \in [Jobs -> Job] /\ job'[t] = Idle
      /\ \A u \in Jobs : u # t => job'[u] = job[u]
  BY JobEnded
<1>2. /\ d \in Sessions /\ job[t].kind = "effect" /\ job[t].gen = sess[d].bound
  BY DEF EffectsOwned, TypeOK, Job
<1>3. /\ sess' \in [Sessions -> Session]
      /\ \A e \in Sessions : sess'[e] = sess[e] \/
            /\ e = d /\ sess[e].claimant = t
            /\ sess'[e].bound = sess[e].bound /\ sess'[e].manual = sess[e].manual
            /\ sess'[e].claimant = NoOne
            /\ \/ sess'[e].state = "unknown"
               \/ sess'[e].state = "applied" /\ Settles(job[t].reply)
  <2>1. CASE UNCHANGED sess
    BY <2>1 DEF TypeOK
  <2>2. ASSUME NEW state \in {"applied", "unknown"}, Marked(t, state),
               state = "applied" => Settles(job[t].reply), sess[d].claimant = t
        PROVE  /\ sess' \in [Sessions -> Session]
               /\ \A e \in Sessions : sess'[e] = sess[e] \/
                     /\ e = d /\ sess[e].claimant = t
                     /\ sess'[e].bound = sess[e].bound /\ sess'[e].manual = sess[e].manual
                     /\ sess'[e].claimant = NoOne
                     /\ \/ sess'[e].state = "unknown"
                        \/ sess'[e].state = "applied" /\ Settles(job[t].reply)
    <3>1. sess' = [sess EXCEPT ![d] = [@ EXCEPT !.state = state, !.claimant = NoOne]]
      BY <2>2 DEF Marked
    <3> QED BY ZenonT(30), <1>2, <2>2, <3>1 DEF TypeOK, Session
  <2> QED BY <2>1, <2>2 DEF Marked
<1>4. \A e \in Sessions : sess'[e] # sess[e] => sess[e].state = "applying" /\ ~sess[e].manual
  BY <1>3 DEF EffectsOwned
<1>5. TypeOK'
  BY <1>1, <1>3 DEF TypeOK
<1>6. TokensKnown'
  BY <1>1, <1>3 DEF TokensKnown, Idle, Lifts
<1>7. FreshPause' /\ LiftsDone'
  BY <1>1 DEF FreshPause, LiftsDone, Over, Idle, Lifts
<1>8. EffectsOwned' /\ UncasSteps'
  <2>1. \A e \in Sessions : sess'[e].bound = sess[e].bound /\ sess'[e].manual = sess[e].manual
    BY <1>3
  <2>2. \A e \in Sessions :
            /\ sess[e].state \in {"applying", "unknown", "applied"} =>
                  sess'[e].state \in {"applying", "unknown", "applied"}
            /\ sess'[e].claimant # NoOne => sess'[e].state = "applying"
            /\ sess'[e].manual => sess'[e].state = "applied"
            /\ sess'[e].state \in {"pending", "applying", "unknown"} => sess'[e].bound # NoGen
    BY <1>3, <1>4 DEF EffectsOwned
  <2>3. EffectsOwned'
    <3>1. \A u \in Jobs : u # t => job'[u] = job[u]
      BY <1>1
    <3>2. job'[t].kind = "pause" /\ job'[t].at = "idle" /\ job'[t].session = NoOne
      BY <1>1 DEF Idle
    <3> QED BY <2>1, <2>2, <3>1, <3>2, SessionOf DEF EffectsOwned
  <2> QED BY <1>1, <2>3 DEF UncasSteps, Idle
<1>9. OneWorkerPerEffect'
  BY <1>1 DEF OneWorkerPerEffect, Idle
<1>10. AppliedMeansOver'
  <2>1. Settles(job[t].reply) => Over(row, sess[d].bound)
    BY <1>2 DEF LiftsDone, Settles, Lifts
  <2> QED BY <1>3, <2>1 DEF AppliedMeansOver, Over
<1> QED BY <1>5, <1>6, <1>7, <1>8, <1>9, <1>10

(* The steps that change the row without a call for a token: what they write *)
(* pauses nothing, and a token they write is none.                           *)

RowEases ==
    /\ row' \in Row
    /\ row'.token \in {row.token, NoGen}
    /\ row'.agents = "paused" => row.agents = "paused"
    /\ row'.ident = "paused" => row.ident = "paused"

LEMMA RowStep ==
    ASSUME IInv, NEW t \in Jobs, NEW at \in Steps, job[t].kind \in {"resume", "archive"},
           at \notin {"idle", "call", "settle"}, Moved(t, at), RowEases,
           UNCHANGED <<cache, sess, next, committed, degraded>>
    PROVE  IInv'
<1> USE Nulls DEF IInv, RowEases
<1>1. /\ job' \in [Jobs -> Job] /\ job'[t] = [job[t] EXCEPT !.at = at]
      /\ \A u \in Jobs : u # t => job'[u] = job[u]
  BY JobMoved
<1>2. job[t] \in Job
  BY DEF TypeOK
<1>3. \A g \in Gens : Over(row, g) => Over(row', g)
  BY DEF Over
<1>4. TypeOK'
  BY <1>1 DEF TypeOK
<1>5. TokensKnown'
  BY <1>1, <1>2 DEF TokensKnown, Lifts, Job
<1>6. FreshPause'
  BY <1>1, <1>2 DEF FreshPause, Job
<1>7. LiftsDone'
  <2>1. \A u \in Jobs : job[u].kind \in Lifts => job[u].gen \in Gens
    BY DEF TokensKnown, TypeOK
  <2> QED BY <1>1, <1>2, <1>3, <2>1 DEF LiftsDone, Lifts, Job
<1>8. EffectsOwned' /\ UncasSteps' /\ OneWorkerPerEffect'
  BY <1>1, <1>2 DEF EffectsOwned, UncasSteps, OneWorkerPerEffect, Job
<1>9. AppliedMeansOver'
  BY DEF AppliedMeansOver
<1> QED BY <1>4, <1>5, <1>6, <1>7, <1>8, <1>9

LEMMA WriteStatusStep == ASSUME IInv, NEW t \in Jobs, WriteStatus(t) PROVE IInv'
<1> USE DEF IInv, WriteStatus
<1>1. job[t].kind \in {"resume", "archive"}
  BY DEF UncasSteps
<1>2. RowEases
  BY DEF RowEases, StatusWritten, TypeOK, Row, Status
<1>3. StepAfter(job[t].kind, job[t].at) \in Steps \ {"idle", "call", "settle"}
  BY DEF StepAfter, Steps
<1> QED BY <1>1, <1>2, <1>3, RowStep

LEMMA MirrorStep == ASSUME IInv, NEW t \in Jobs, Mirror(t) PROVE IInv'
<1> USE Nulls DEF IInv, Mirror
<1>1. /\ job' \in [Jobs -> Job]
      /\ \A u \in Jobs : u # t => job'[u] = job[u]
      /\ job[t].kind \in {"resume", "archive"}
      /\ job'[t] = Idle \/ job'[t] = [job[t] EXCEPT !.at = "clear"]
  BY JobEnded, JobMoved DEF Steps
<1>2. /\ cache' \in [Servers -> Cached]
      /\ \A s \in Servers : cache'[s].token = cache[s].token
  <2>1. StatusWritten(job[t].kind) \in Status
    BY DEF StatusWritten, Status
  <2> QED BY <2>1 DEF TypeOK, Cached
<1>3. job[t] \in Job
  BY DEF TypeOK
<1>4. TypeOK'
  BY <1>1, <1>2 DEF TypeOK
<1>5. TokensKnown'
  BY <1>1, <1>2, <1>3 DEF TokensKnown, Idle, Lifts, Job
<1>6. FreshPause'
  BY <1>1, <1>3 DEF FreshPause, Idle, Job
<1>7. LiftsDone' /\ AppliedMeansOver'
  BY <1>1, <1>3 DEF LiftsDone, Over, Idle, Lifts, Job, AppliedMeansOver
<1>8. EffectsOwned' /\ UncasSteps' /\ OneWorkerPerEffect'
  BY <1>1, <1>3 DEF EffectsOwned, UncasSteps, OneWorkerPerEffect, Idle, Job
<1> QED BY <1>4, <1>5, <1>6, <1>7, <1>8

LEMMA ClearTokenStep == ASSUME IInv, NEW t \in Jobs, ClearToken(t) PROVE IInv'
<1> USE DEF IInv, ClearToken
<1>1. job[t].kind \in {"resume", "archive"}
  BY DEF UncasSteps
<1>2. RowEases
  BY DEF RowEases, TypeOK, Row, Token
<1> QED BY <1>1, <1>2, RowStep DEF Steps

LEMMA PublishResumeStep == ASSUME IInv, NEW t \in Jobs, PublishResume(t) PROVE IInv'
<1> USE Nulls DEF IInv, PublishResume, Lifted, Ended, Idle
<1>a. row' \in Row /\ cache' \in [Servers -> Cached]
  BY DEF TypeOK, Row, Cached, Status, Token
<1>b. job' \in [Jobs -> Job]
  BY DEF TypeOK, Job, Steps, Replies, AllKinds, Token, Cached, Row, Session
<1>c. sess' \in [Sessions -> Session]
  BY DEF TypeOK, Session
<1>d. next' \in 1 .. MaxGen + 1 /\ committed' \in SUBSET Gens /\ degraded' \in SUBSET Gens
  BY GensAssumption DEF TypeOK, Gens, Job, Token, Row
<1>1. TypeOK'
  BY <1>a, <1>b, <1>c, <1>d DEF TypeOK
<1>2. TokensKnown'
  BY DEF TokensKnown, Lifts, TypeOK, Job, Session, Token, Row, Cached
<1>3. FreshPause'
  BY DEF FreshPause, TypeOK, Job, Session, Token, Row, Cached
<1>4. LiftsDone'
  BY DEF LiftsDone, Over, Lifts, TokensKnown, TypeOK, Job, Session, Token, Row, Cached
<1>5. EffectsOwned'
  BY DEF EffectsOwned, TypeOK, Job, Session, Token, Row, Cached
<1>6. UncasSteps'
  BY DEF UncasSteps, Lifts, StatusWritten, TypeOK, Job, Session, Token, Row, Cached
<1>7. OneWorkerPerEffect'
  BY DEF OneWorkerPerEffect, EffectsOwned, TypeOK, Job, Session, Token, Row, Cached
<1>8. AppliedMeansOver'
  BY DEF AppliedMeansOver, Over, TypeOK, Job, Session, Token, Row, Cached
<1> QED BY <1>1, <1>2, <1>3, <1>4, <1>5, <1>6, <1>7, <1>8

LEMMA DropStep == ASSUME IInv, NEW t \in Jobs, Drop(t) PROVE IInv'
<1> USE Nulls DEF IInv, Drop, Ended, Idle
<1>a. row' \in Row /\ cache' \in [Servers -> Cached]
  BY DEF TypeOK, Row, Cached, Status, Token
<1>b. job' \in [Jobs -> Job]
  BY DEF TypeOK, Job, Steps, Replies, AllKinds, Token, Cached, Row, Session
<1>c. sess' \in [Sessions -> Session]
  BY DEF TypeOK, Session
<1>d. next' \in 1 .. MaxGen + 1 /\ committed' \in SUBSET Gens /\ degraded' \in SUBSET Gens
  BY GensAssumption DEF TypeOK, Gens, Job, Token, Row
<1>1. TypeOK'
  BY <1>a, <1>b, <1>c, <1>d DEF TypeOK
<1>2. TokensKnown'
  BY DEF TokensKnown, Lifts, TypeOK, Job, Session, Token, Row, Cached
<1>3. FreshPause'
  BY DEF FreshPause, TypeOK, Job, Session, Token, Row, Cached
<1>4. LiftsDone'
  BY DEF LiftsDone, Over, Lifts, TokensKnown, TypeOK, Job, Session, Token, Row, Cached
<1>5. EffectsOwned'
  BY DEF EffectsOwned, TypeOK, Job, Session, Token, Row, Cached
<1>6. UncasSteps'
  BY DEF UncasSteps, Lifts, StatusWritten, TypeOK, Job, Session, Token, Row, Cached
<1>7. OneWorkerPerEffect'
  BY DEF OneWorkerPerEffect, EffectsOwned, TypeOK, Job, Session, Token, Row, Cached
<1>8. AppliedMeansOver'
  BY DEF AppliedMeansOver, Over, TypeOK, Job, Session, Token, Row, Cached
<1> QED BY <1>1, <1>2, <1>3, <1>4, <1>5, <1>6, <1>7, <1>8

LEMMA OpenSessionStep == ASSUME IInv, NEW d \in Sessions, OpenSession(d) PROVE IInv'
<1> USE Nulls DEF IInv, OpenSession, InForce
<1>a. row' \in Row /\ cache' \in [Servers -> Cached]
  BY DEF TypeOK, Row, Cached, Status, Token
<1>b. job' \in [Jobs -> Job]
  BY DEF TypeOK, Job, Steps, Replies, AllKinds, Token, Cached, Row, Session
<1>c. sess' \in [Sessions -> Session]
  BY ZenonT(30), InForceIn DEF TypeOK, Session
<1>d. next' \in 1 .. MaxGen + 1 /\ committed' \in SUBSET Gens /\ degraded' \in SUBSET Gens
  BY GensAssumption DEF TypeOK, Gens, Job, Token, Row
<1>1. TypeOK'
  BY <1>a, <1>b, <1>c, <1>d DEF TypeOK
<1>2. TokensKnown'
  BY DEF TokensKnown, Lifts, TypeOK, Job, Session, Token, Row, Cached
<1>3. FreshPause'
  BY DEF FreshPause, TypeOK, Job, Session, Token, Row, Cached
<1>4. LiftsDone'
  BY DEF LiftsDone, Over, Lifts, TokensKnown, TypeOK, Job, Session, Token, Row, Cached
<1>5. EffectsOwned'
  BY DEF EffectsOwned, TypeOK, Job, Session, Token, Row, Cached
<1>6. UncasSteps'
  BY DEF UncasSteps, Lifts, StatusWritten, TypeOK, Job, Session, Token, Row, Cached
<1>7. OneWorkerPerEffect'
  BY DEF OneWorkerPerEffect, EffectsOwned, TypeOK, Job, Session, Token, Row, Cached
<1>8. AppliedMeansOver'
  BY DEF AppliedMeansOver, Over, TypeOK, Job, Session, Token, Row, Cached
<1> QED BY <1>1, <1>2, <1>3, <1>4, <1>5, <1>6, <1>7, <1>8

LEMMA ResolveStep == ASSUME IInv, NEW d \in Sessions, Resolve(d) PROVE IInv'
<1> USE Nulls DEF IInv, Resolve
<1>a. row' \in Row /\ cache' \in [Servers -> Cached]
  BY DEF TypeOK, Row, Cached, Status, Token
<1>b. job' \in [Jobs -> Job]
  BY DEF TypeOK, Job, Steps, Replies, AllKinds, Token, Cached, Row, Session
<1>c. sess' \in [Sessions -> Session]
  BY DEF TypeOK, Session
<1>d. next' \in 1 .. MaxGen + 1 /\ committed' \in SUBSET Gens /\ degraded' \in SUBSET Gens
  BY GensAssumption DEF TypeOK, Gens, Job, Token, Row
<1>1. TypeOK'
  BY <1>a, <1>b, <1>c, <1>d DEF TypeOK
<1>2. TokensKnown'
  BY DEF TokensKnown, Lifts, TypeOK, Job, Session, Token, Row, Cached
<1>3. FreshPause'
  BY DEF FreshPause, TypeOK, Job, Session, Token, Row, Cached
<1>4. LiftsDone'
  BY DEF LiftsDone, Over, Lifts, TokensKnown, TypeOK, Job, Session, Token, Row, Cached
<1>5. EffectsOwned'
  BY DEF EffectsOwned, TypeOK, Job, Session, Token, Row, Cached
<1>6. UncasSteps'
  BY DEF UncasSteps, Lifts, StatusWritten, TypeOK, Job, Session, Token, Row, Cached
<1>7. OneWorkerPerEffect'
  BY DEF OneWorkerPerEffect, EffectsOwned, TypeOK, Job, Session, Token, Row, Cached
<1>8. AppliedMeansOver'
  BY DEF AppliedMeansOver, Over, TypeOK, Job, Session, Token, Row, Cached
<1> QED BY <1>1, <1>2, <1>3, <1>4, <1>5, <1>6, <1>7, <1>8

LEMMA QuarantineStep == ASSUME IInv, NEW d \in Sessions, Quarantine(d) PROVE IInv'
<1> USE Nulls DEF IInv, Quarantine
<1>a. row' \in Row /\ cache' \in [Servers -> Cached]
  BY DEF TypeOK, Row, Cached, Status, Token
<1>b. job' \in [Jobs -> Job]
  BY DEF TypeOK, Job, Steps, Replies, AllKinds, Token, Cached, Row, Session
<1>c. sess' \in [Sessions -> Session]
  BY DEF TypeOK, Session
<1>d. next' \in 1 .. MaxGen + 1 /\ committed' \in SUBSET Gens /\ degraded' \in SUBSET Gens
  BY GensAssumption DEF TypeOK, Gens, Job, Token, Row
<1>1. TypeOK'
  BY <1>a, <1>b, <1>c, <1>d DEF TypeOK
<1>2. TokensKnown'
  BY DEF TokensKnown, Lifts, TypeOK, Job, Session, Token, Row, Cached
<1>3. FreshPause'
  BY DEF FreshPause, TypeOK, Job, Session, Token, Row, Cached
<1>4. LiftsDone'
  BY DEF LiftsDone, Over, Lifts, TokensKnown, TypeOK, Job, Session, Token, Row, Cached
<1>5. EffectsOwned'
  BY DEF EffectsOwned, TypeOK, Job, Session, Token, Row, Cached
<1>6. UncasSteps'
  BY DEF UncasSteps, Lifts, StatusWritten, TypeOK, Job, Session, Token, Row, Cached
<1>7. OneWorkerPerEffect'
  BY DEF OneWorkerPerEffect, EffectsOwned, TypeOK, Job, Session, Token, Row, Cached
<1>8. AppliedMeansOver'
  BY DEF AppliedMeansOver, Over, TypeOK, Job, Session, Token, Row, Cached
<1> QED BY <1>1, <1>2, <1>3, <1>4, <1>5, <1>6, <1>7, <1>8

LEMMA AcknowledgeStep == ASSUME IInv, NEW d \in Sessions, Acknowledge(d) PROVE IInv'
<1> USE Nulls DEF IInv, Acknowledge
<1>a. row' \in Row /\ cache' \in [Servers -> Cached]
  BY DEF TypeOK, Row, Cached, Status, Token
<1>b. job' \in [Jobs -> Job]
  BY DEF TypeOK, Job, Steps, Replies, AllKinds, Token, Cached, Row, Session
<1>c. sess' \in [Sessions -> Session]
  BY DEF TypeOK, Session
<1>d. next' \in 1 .. MaxGen + 1 /\ committed' \in SUBSET Gens /\ degraded' \in SUBSET Gens
  BY GensAssumption DEF TypeOK, Gens, Job, Token, Row
<1>1. TypeOK'
  BY <1>a, <1>b, <1>c, <1>d DEF TypeOK
<1>2. TokensKnown'
  BY DEF TokensKnown, Lifts, TypeOK, Job, Session, Token, Row, Cached
<1>3. FreshPause'
  BY DEF FreshPause, TypeOK, Job, Session, Token, Row, Cached
<1>4. LiftsDone'
  BY DEF LiftsDone, Over, Lifts, TokensKnown, TypeOK, Job, Session, Token, Row, Cached
<1>5. EffectsOwned'
  BY DEF EffectsOwned, TypeOK, Job, Session, Token, Row, Cached
<1>6. UncasSteps'
  BY DEF UncasSteps, Lifts, StatusWritten, TypeOK, Job, Session, Token, Row, Cached
<1>7. OneWorkerPerEffect'
  BY DEF OneWorkerPerEffect, EffectsOwned, TypeOK, Job, Session, Token, Row, Cached
<1>8. AppliedMeansOver'
  BY DEF AppliedMeansOver, Over, TypeOK, Job, Session, Token, Row, Cached
<1> QED BY <1>1, <1>2, <1>3, <1>4, <1>5, <1>6, <1>7, <1>8

LEMMA RestartStep == ASSUME IInv, NEW s \in Servers, Restart(s) PROVE IInv'
<1> USE Nulls DEF IInv, Restart, Idle
<1>a. row' \in Row /\ cache' \in [Servers -> Cached]
  BY DEF TypeOK, Row, Cached, Status, Token
<1>b. job' \in [Jobs -> Job]
  BY DEF TypeOK, Job, Steps, Replies, AllKinds, Token, Cached, Row, Session
<1>c. sess' \in [Sessions -> Session]
  BY DEF TypeOK, Session
<1>d. next' \in 1 .. MaxGen + 1 /\ committed' \in SUBSET Gens /\ degraded' \in SUBSET Gens
  BY GensAssumption DEF TypeOK, Gens, Job, Token, Row
<1>1. TypeOK'
  BY <1>a, <1>b, <1>c, <1>d DEF TypeOK
<1>2. TokensKnown'
  BY DEF TokensKnown, Lifts, TypeOK, Job, Session, Token, Row, Cached
<1>3. FreshPause'
  BY DEF FreshPause, TypeOK, Job, Session, Token, Row, Cached
<1>4. LiftsDone'
  BY DEF LiftsDone, Over, Lifts, TokensKnown, TypeOK, Job, Session, Token, Row, Cached
<1>5. EffectsOwned'
  BY DEF EffectsOwned, TypeOK, Job, Session, Token, Row, Cached
<1>6. UncasSteps'
  BY DEF UncasSteps, Lifts, StatusWritten, TypeOK, Job, Session, Token, Row, Cached
<1>7. OneWorkerPerEffect'
  BY DEF OneWorkerPerEffect, EffectsOwned, TypeOK, Job, Session, Token, Row, Cached
<1>8. AppliedMeansOver'
  BY DEF AppliedMeansOver, Over, TypeOK, Job, Session, Token, Row, Cached
<1> QED BY <1>1, <1>2, <1>3, <1>4, <1>5, <1>6, <1>7, <1>8

-----------------------------------------------------------------------------
(* The invariant.                                                          *)

LEMMA InitIInv == Init => IInv
<1> SUFFICES ASSUME Init PROVE IInv
  OBVIOUS
<1> USE Nulls DEF Init
<1>1. TypeOK
  <2>1. Idle \in Job
    BY DEF Idle, Job, Steps, AllKinds, Token
  <2>2. Unopened \in Session
    BY DEF Unopened, Session, Token
  <2>3. 1 \in 1 .. MaxGen + 1
    BY GensAssumption
  <2> QED BY <2>1, <2>2, <2>3 DEF TypeOK, Row, Cached, Status, Token
<1>2. TokensKnown /\ FreshPause /\ LiftsDone
  BY DEF TokensKnown, FreshPause, LiftsDone, Lifts, Idle, Unopened
<1>3. EffectsOwned /\ UncasSteps /\ OneWorkerPerEffect /\ AppliedMeansOver
  BY DEF EffectsOwned, UncasSteps, OneWorkerPerEffect, AppliedMeansOver, Idle, Unopened
<1> QED BY <1>1, <1>2, <1>3 DEF IInv

LEMMA StutterIInv == IInv /\ UNCHANGED vars => IInv'
BY DEF vars, IInv, TypeOK, TokensKnown, FreshPause, LiftsDone, Over, EffectsOwned,
       UncasSteps, OneWorkerPerEffect, AppliedMeansOver

LEMMA NextIInv == IInv /\ [Next]_vars => IInv'
<1> SUFFICES ASSUME IInv, [Next]_vars PROVE IInv'
  OBVIOUS
<1>1. ASSUME NEW t \in Jobs, NEW s \in Servers,
             \/ StartPause(t, s) \/ StartLift(t, s) \/ StartResume(t, s) \/ StartArchive(t, s)
             \/ \E d \in Sessions : ClaimEffect(t, s, d)
      PROVE  IInv'
  BY <1>1, StartPauseStep, StartLiftStep, StartResumeStep, StartArchiveStep, ClaimEffectStep
<1>2. ASSUME NEW t \in Jobs,
             \/ Call(t) \/ PublishPause(t) \/ PublishLift(t) \/ SettleEffect(t)
             \/ WriteStatus(t) \/ Mirror(t) \/ ClearToken(t) \/ PublishResume(t)
             \/ Drop(t)
      PROVE  IInv'
  BY <1>2, CallStep, PublishPauseStep, PublishLiftStep, SettleEffectStep, WriteStatusStep,
     MirrorStep, ClearTokenStep, PublishResumeStep, DropStep
<1>3. ASSUME NEW d \in Sessions, OpenSession(d) \/ Resolve(d) \/ Quarantine(d) \/ Acknowledge(d)
      PROVE  IInv'
  BY <1>3, OpenSessionStep, ResolveStep, QuarantineStep, AcknowledgeStep
<1>4. ASSUME NEW s \in Servers, Restart(s) PROVE IInv'
  BY <1>4, RestartStep
<1> QED BY <1>1, <1>2, <1>3, <1>4, StutterIInv DEF Next

\* The inductive invariant: types, where every token in flight comes from, what
\* the answers carried by the jobs prove, who owns which effect, and the two
\* properties these are for.
THEOREM PauseInvariant == Spec => []IInv
BY InitIInv, NextIInv, PTL DEF Spec

-----------------------------------------------------------------------------
(* What follows from it.                                                   *)

\* Every variable keeps its type: the writers of the rows, the caches and the
\* sessions write only statuses, tokens and states the others know.
THEOREM PauseTypeCorrect == Spec => []TypeOK
BY PauseInvariant, PTL DEF IInv

\* An effect recorded as applied is about a pause that is over, for any number
\* of servers, requests and sessions (resolution.py, execute_resolution).
THEOREM AppliedIsOver == Spec => []AppliedMeansOver
BY PauseInvariant, PTL DEF IInv

\* No effect ever has two workers (dialectic_db_queries.py, the claim).
THEOREM EffectHasOneWorker == Spec => []OneWorkerPerEffect
BY PauseInvariant, PTL DEF IInv

\* Every token a cache shows was durable or was reported as not durable
\* (agent_loop_detection.py, the circuit breaker's token).
THEOREM TokensAccountedFor == Spec => []CachedTokensAccountedFor
<1>1. IInv => CachedTokensAccountedFor
  BY DEF IInv, TokensKnown, CachedTokensAccountedFor
<1> QED BY <1>1, PauseInvariant, PTL

(* The moves of the generation in force. *)

LEMMA RowMoves ==
    ASSUME IInv, NEW t \in Jobs, Call(t)
    PROVE  \/ row' = row
           \/ /\ InForce(row') = NoGen /\ row'.token = NoGen
              /\ job[t].kind \in Lifts
              /\ job[t].kind # "ttl" => InForce(row) = job[t].gen
           \/ /\ job[t].kind = "pause" /\ InForce(row) = NoGen
              /\ InForce(row') = job[t].gen /\ row'.token = job[t].gen
<1>1. job[t].kind \in Lifts \cup {"pause"}
  BY DEF IInv, UncasSteps, Call
<1>2. CASE row' = row
  BY <1>2
<1>3. CASE row' # row
  <2>1. PICK reply \in Replies : Answers(job[t].kind, row, job[t].gen, reply, row')
    BY <1>3 DEF Call
  <2>2. CASE job[t].kind = "pause"
    <3>1. Installs(row, job[t].gen, reply, row')
      BY <2>1, <2>2 DEF Answers
    <3> QED BY <1>3, <2>2, <3>1 DEF Installs, InForce
  <2>3. CASE job[t].kind = "ttl"
    <3>1. Expires(row, job[t].gen, reply, row')
      BY <2>1, <2>3 DEF Answers
    <3> QED BY <1>3, <2>3, <3>1 DEF Expires, Released, InForce, Lifts
  <2>4. CASE job[t].kind \in {"net", "effect"}
    <3>1. Consumes(row, job[t].gen, reply, row')
      BY <2>1, <2>4 DEF Answers
    <3> QED BY <1>3, <2>4, <3>1 DEF Consumes, Released, InForce, Lifts
  <2> QED BY <1>1, <2>2, <2>3, <2>4 DEF Lifts
<1> QED BY <1>2, <1>3

\* The other steps touch the row only to ease it.
LEMMA RowEasesOnly ==
    ASSUME IInv, NEW t \in Jobs, WriteStatus(t) \/ ClearToken(t)
    PROVE  InForce(row') = InForce(row) \/ InForce(row') = NoGen
<1>1. job[t].kind \in {"resume", "archive"}
  BY DEF IInv, UncasSteps, WriteStatus, ClearToken
<1>2. RowEases
  BY <1>1 DEF RowEases, WriteStatus, ClearToken, StatusWritten, IInv, TypeOK, Row, Status, Token
<1> QED BY <1>2 DEF RowEases, InForce

LEMMA RowChanges ==
    ASSUME IInv, Next, row' # row
    PROVE  \E t \in Jobs :
              /\ Call(t) \/ WriteStatus(t) \/ ClearToken(t)
              /\ \A u \in Jobs : u # t => job'[u] = job[u]
              /\ UNCHANGED <<cache, sess>>
<1>1. PICK t \in Jobs : Call(t) \/ WriteStatus(t) \/ ClearToken(t)
  BY DEF Next, StartPause, StartLift, StartResume, StartArchive, ClaimEffect, PublishPause,
         PublishLift, SettleEffect, Mirror, PublishResume, Drop, OpenSession, Resolve,
         Quarantine, Acknowledge, Restart
<1>2. \A u \in Jobs : u # t => job'[u] = job[u]
  BY <1>1 DEF Call, WriteStatus, ClearToken, Replied, Moved, IInv, TypeOK
<1> QED BY <1>1, <1>2 DEF Call, WriteStatus, ClearToken

\* A verdict lifts the pause its session was opened on and no later one
\* (db/mixins/identity.py, resume_agent_if_pause_token).
THEOREM VerdictLiftsOwn == Spec => VerdictLiftsItsOwnPause
<1>1. ASSUME IInv, [Next]_vars, NEW t \in Jobs, job[t].session # NoOne,
             job'[t] # job[t], InForce(row) # InForce(row')
      PROVE  InForce(row) = sess[job[t].session].bound
  <2>1. Next /\ row' # row
    BY <1>1 DEF vars
  <2>2. PICK u \in Jobs : /\ Call(u) \/ WriteStatus(u) \/ ClearToken(u)
                          /\ \A v \in Jobs : v # u => job'[v] = job[v]
    BY <1>1, <2>1, RowChanges
  <2>3. u = t /\ job[t].kind = "effect" /\ job[t].gen = sess[job[t].session].bound
    BY <1>1, <2>2 DEF IInv, EffectsOwned
  <2>4. Call(t)
    BY <1>1, <2>2, <2>3 DEF IInv, UncasSteps, WriteStatus, ClearToken
  <2> QED BY <1>1, <2>1, <2>3, <2>4, RowMoves
<1>2. IInv /\ [Next]_vars =>
        [\A t \in Jobs :
            (/\ job[t].session # NoOne /\ job'[t] # job[t]
             /\ InForce(row) # InForce(row'))
            => InForce(row) = sess[job[t].session].bound]_vars
  BY <1>1
<1> QED BY <1>2, PauseInvariant, PTL DEF Spec, VerdictLiftsItsOwnPause

LEMMA CacheChanges ==
    ASSUME IInv, Next, NEW s \in Servers, cache'[s] # cache[s],
           cache[s].status = "paused", cache[s].token = InForce(row), InForce(row) # NoGen,
           cache'[s].status # "paused"
    PROVE  \E t \in Jobs : /\ job[t].kind \in {"resume", "archive"}
                           /\ job[t].server = s
                           /\ job'[t] # job[t]
<1>1. ~Restart(s) /\ row.ident = "paused" /\ row.agents = "paused" /\ InForce(row) = row.token
  BY DEF Restart, InForce, IInv, TypeOK
<1>2. PICK t \in Jobs : PublishPause(t) \/ PublishLift(t) \/ Mirror(t) \/ PublishResume(t)
  <2>1. \A r \in Servers : Restart(r) => r = s
    BY DEF Restart, IInv, TypeOK
  <2> QED BY <1>1, <2>1
          DEF Next, StartPause, StartLift, StartResume, StartArchive, ClaimEffect, Call,
              SettleEffect, WriteStatus, ClearToken, Drop, OpenSession, Resolve, Quarantine,
              Acknowledge
<1>3. job[t].server = s
  BY <1>2 DEF PublishPause, PublishLift, Mirror, PublishResume, IInv, TypeOK
<1>4. ~PublishPause(t)
  BY <1>3 DEF PublishPause, IInv, TypeOK
<1>5. ~PublishLift(t)
  <2> SUFFICES ASSUME PublishLift(t) PROVE FALSE
    OBVIOUS
  <2>1. cache'[s] = AfterLift(cache[s], job[t])
    BY <1>3 DEF PublishLift, IInv, TypeOK
  <2>2. job[t].reply = "applied" /\ cache[s].token = job[t].gen
    BY <2>1 DEF AfterLift, StillShows, IInv, TypeOK, Cached
  <2>3. Over(row, job[t].gen)
    BY <2>2 DEF PublishLift, IInv, LiftsDone, Lifts
  <2> QED BY <1>1, <2>2, <2>3 DEF Over
<1>6. job'[t] # job[t]
  <2>1. CASE Mirror(t)
    BY <2>1 DEF Mirror, Moved, Ended, Idle, IInv, TypeOK, Job
  <2>2. CASE PublishResume(t)
    BY <2>2 DEF PublishResume, Ended, Idle, IInv, TypeOK
  <2> QED BY <1>2, <1>4, <1>5, <2>1, <2>2
<1>7. job[t].kind \in {"resume", "archive"}
  BY <1>2, <1>4, <1>5 DEF Mirror, PublishResume, IInv, UncasSteps
<1> QED BY <1>3, <1>6, <1>7

\* No job that carries a token lets an agent go in a server that shows the
\* pause in force (agent_loop_detection.py, pause_ttl.py, resolution.py: the
\* comparisons after the database's answer).
THEOREM ShownPauseIsKept == Spec => ShownPauseStays
<1>1. ASSUME IInv, [Next]_vars, NEW s \in Servers,
             cache[s].status = "paused", cache[s].token = InForce(row), InForce(row) # NoGen,
             cache'[s].status # "paused"
      PROVE  \E t \in Jobs : /\ job[t].kind \in {"resume", "archive"}
                             /\ job[t].server = s
                             /\ job'[t] # job[t]
  <2>1. Next /\ cache'[s] # cache[s]
    BY <1>1 DEF vars
  <2> QED BY <1>1, <2>1, CacheChanges
<1>2. IInv /\ [Next]_vars =>
        [\A s \in Servers :
           (/\ cache[s].status = "paused"
            /\ cache[s].token = InForce(row) /\ InForce(row) # NoGen
            /\ cache'[s].status # "paused")
           => \E t \in Jobs : /\ job[t].kind \in {"resume", "archive"}
                              /\ job[t].server = s
                              /\ job'[t] # job[t]]_vars
  BY <1>1
<1> QED BY <1>2, PauseInvariant, PTL DEF Spec, ShownPauseStays

-----------------------------------------------------------------------------
(* The refinement of ReviewedPause.                                        *)

\* The mapped variables move only with the row, the tokens and the sessions.
LEMMA MappedStutter ==
    ASSUME UNCHANGED sess, InForce(row') = InForce(row), committed' = committed
    PROVE  UNCHANGED R!vars
BY DEF R!vars, Review, InForce

LEMMA ReviewStutter ==
    ASSUME UNCHANGED <<row, committed>>, Review' = Review
    PROVE  UNCHANGED R!vars
BY DEF R!vars, InForce

\* The end of a pause, seen from the row.
LEMMA MappedEnd ==
    ASSUME IInv, UNCHANGED sess, InForce(row') \in {InForce(row), NoGen}, committed' = committed
    PROVE  [R!Next]_(R!vars)
<1>1. CASE InForce(row') = InForce(row)
  BY <1>1, MappedStutter
<1>2. CASE InForce(row') = NoGen /\ InForce(row) # NoGen
  <2>1. InForce(row) \in committed /\ NoGen \notin committed
    BY <1>2, InForceIn, Nulls DEF IInv, TokensKnown, TypeOK
  <2>2. InForce(row)' = NoGen
    BY <1>2 DEF InForce
  <2>3. Review' = Review
    BY DEF Review
  <2>4. (committed \ {InForce(row)})' = (committed \ {InForce(row)}) \cup {InForce(row)}
    BY <2>1, <2>2
  <2>5. R!End
    BY <1>2, <2>2, <2>3, <2>4 DEF R!End
  <2> QED BY <2>5 DEF R!Next
<1> QED BY <1>1, <1>2

LEMMA CallMaps == ASSUME IInv, NEW t \in Jobs, Call(t) PROVE [R!Next]_(R!vars)
<1>1. /\ UNCHANGED sess
      /\ committed' = committed \cup ({row'.token} \ {NoGen})
      /\ NoGen \notin committed
  BY Nulls DEF Call, IInv, TypeOK
<1>2. CASE row' = row
  <2>1. committed' = committed
    BY <1>1, <1>2 DEF IInv, TokensKnown
  <2> QED BY <1>1, <1>2, <2>1, MappedStutter
<1>3. CASE InForce(row') = NoGen /\ row'.token = NoGen
  BY <1>1, <1>3, MappedEnd
<1>4. CASE /\ job[t].kind = "pause" /\ InForce(row) = NoGen
           /\ InForce(row') = job[t].gen /\ row'.token = job[t].gen
  <2>1. job[t].gen \in Gens /\ job[t].gen \notin committed /\ job[t].gen # NoGen
    BY <1>4, Nulls DEF IInv, FreshPause, Call
  <2>2. InForce(row)' = job[t].gen
    BY <1>4 DEF InForce
  <2>3. Review' = Review
    BY <1>1 DEF Review
  <2>4. committed' = committed \cup {job[t].gen}
    BY <1>1, <1>4, <2>1
  <2>5. (committed \ {InForce(row)})' = committed \ {InForce(row)}
    BY <1>1, <1>4, <2>1, <2>2, <2>4
  <2>6. R!Pause(job[t].gen)
    BY <1>4, <2>1, <2>2, <2>3, <2>5 DEF R!Pause
  <2>7. job[t].gen \in R!Gens
    BY <2>1 DEF R!Gens, Gens
  <2> QED BY <2>6, <2>7 DEF R!Next
<1> QED BY <1>2, <1>3, <1>4, RowMoves

LEMMA EaseMaps ==
    ASSUME IInv, NEW t \in Jobs, WriteStatus(t) \/ ClearToken(t) PROVE [R!Next]_(R!vars)
<1>1. UNCHANGED <<sess, committed>>
  BY DEF WriteStatus, ClearToken
<1> QED BY <1>1, RowEasesOnly, MappedEnd

LEMMA OpenMaps == ASSUME IInv, NEW d \in Sessions, OpenSession(d) PROVE [R!Next]_(R!vars)
<1>1. UNCHANGED <<InForce(row), committed \ {InForce(row)}>>
  BY DEF OpenSession, InForce
<1>2. Review[d].state = "none"
  BY DEF OpenSession, Review
<1>3. Review' = [Review EXCEPT ![d] = [on |-> InForce(row), state |-> "open"]]
  <2>1. sess'[d].bound = InForce(row) /\ sess'[d].state = "open"
    BY DEF OpenSession, IInv, TypeOK, Session
  <2>2. \A e \in Sessions : e # d => sess'[e] = sess[e]
    BY DEF OpenSession, IInv, TypeOK
  <2> QED BY <2>1, <2>2 DEF Review
<1>4. R!Open(d)
  BY <1>1, <1>2, <1>3 DEF R!Open
<1> QED BY <1>4 DEF R!Next

\* A session whose state becomes applied settles its review.
LEMMA MappedSettle ==
    ASSUME IInv, NEW d \in Sessions, UNCHANGED <<row, committed>>,
           sess[d].state \in {"open", "applying"}, sess'[d].state = "applied",
           ~sess[d].manual, sess'[d].manual = sess[d].manual, sess'[d].bound = sess[d].bound,
           \A e \in Sessions : e # d => sess'[e] = sess[e],
           sess[d].bound = NoGen \/ Over(row, sess[d].bound)
    PROVE  [R!Next]_(R!vars)
<1>1. UNCHANGED <<InForce(row), committed \ {InForce(row)}>>
  BY DEF InForce
<1>2. Review[d].state = "open" /\ Review[d].on = sess[d].bound
  BY DEF Review
<1>3. Review' = [Review EXCEPT ![d].state = "settled"]
  BY DEF Review
<1>4. Review[d].on \in (committed \ {InForce(row)}) \cup {NoGen}
  <2>1. CASE sess[d].bound # NoGen
    <3>1. sess[d].bound \in committed
      BY <2>1 DEF IInv, TokensKnown
    <3>2. sess[d].bound # InForce(row)
      BY <2>1 DEF Over, InForce
    <3> QED BY <1>2, <3>1, <3>2
  <2> QED BY <1>2, <2>1
<1>5. R!Settle(d)
  BY <1>1, <1>2, <1>3, <1>4 DEF R!Settle
<1> QED BY <1>5 DEF R!Next

LEMMA ResolveMaps == ASSUME IInv, NEW d \in Sessions, Resolve(d) PROVE [R!Next]_(R!vars)
<1> USE DEF Resolve
<1>1. /\ sess'[d].state = IF sess[d].bound = NoGen THEN "applied" ELSE "pending"
      /\ sess'[d].manual = sess[d].manual /\ sess'[d].bound = sess[d].bound
      /\ \A e \in Sessions : e # d => sess'[e] = sess[e]
  BY DEF IInv, TypeOK, Session
<1>2. ~sess[d].manual
  BY DEF IInv, EffectsOwned, TypeOK, Session
<1>3. CASE sess[d].bound = NoGen
  BY <1>1, <1>2, <1>3, MappedSettle
<1>4. CASE sess[d].bound # NoGen
  BY <1>1, <1>4, ReviewStutter DEF Review
<1> QED BY <1>3, <1>4

LEMMA ClaimMaps ==
    ASSUME IInv, NEW t \in Jobs, NEW s \in Servers, NEW d \in Sessions, ClaimEffect(t, s, d)
    PROVE  [R!Next]_(R!vars)
<1>1. Review' = Review
  BY DEF ClaimEffect, Claimable, Review, IInv, TypeOK, Session
<1> QED BY <1>1, ReviewStutter DEF ClaimEffect

LEMMA SettleMaps == ASSUME IInv, NEW t \in Jobs, SettleEffect(t) PROVE [R!Next]_(R!vars)
<1> DEFINE d == job[t].session
<1>1. /\ d \in Sessions /\ job[t].kind = "effect" /\ job[t].gen = sess[d].bound
  BY SessionOf DEF SettleEffect, IInv, EffectsOwned
<1>2. UNCHANGED <<row, committed>>
  BY DEF SettleEffect
<1>3. CASE UNCHANGED sess
  BY <1>2, <1>3, ReviewStutter DEF Review
<1>4. CASE sess' # sess
  <2>1. PICK state \in {"applied", "unknown"} :
            /\ sess' = [sess EXCEPT ![d] = [@ EXCEPT !.state = state, !.claimant = NoOne]]
            /\ sess[d].claimant = t
            /\ state = "applied" => Settles(job[t].reply)
    BY <1>4 DEF SettleEffect, Marked
  <2>2. /\ sess'[d].state = state /\ sess'[d].manual = sess[d].manual
        /\ sess'[d].bound = sess[d].bound
        /\ \A e \in Sessions : e # d => sess'[e] = sess[e]
    BY <1>1, <2>1 DEF IInv, TypeOK, Session
  <2>3. sess[d].state = "applying" /\ ~sess[d].manual
    <3>1. sess[d].claimant # NoOne
      BY <2>1, Nulls
    <3>2. sess[d] \in Session
      BY <1>1 DEF IInv, TypeOK
    <3> QED BY <1>1, <3>1, <3>2 DEF IInv, EffectsOwned, Session
  <2>4. CASE state = "applied"
    <3>1. Over(row, sess[d].bound)
      BY <1>1, <2>1, <2>4 DEF SettleEffect, IInv, LiftsDone, Settles, Lifts
    <3> QED BY <1>1, <1>2, <2>2, <2>3, <2>4, <3>1, MappedSettle
  <2>5. CASE state = "unknown"
    <3>1. Review' = Review
      BY <1>1, <2>2, <2>3, <2>5 DEF Review
    <3> QED BY <1>2, <3>1, ReviewStutter
  <2> QED BY <2>4, <2>5
<1> QED BY <1>3, <1>4

LEMMA QuarantineMaps == ASSUME IInv, NEW d \in Sessions, Quarantine(d) PROVE [R!Next]_(R!vars)
<1>1. Review' = Review
  BY DEF Quarantine, Review, IInv, TypeOK, Session
<1> QED BY <1>1, ReviewStutter DEF Quarantine

LEMMA AcknowledgeMaps == ASSUME IInv, NEW d \in Sessions, Acknowledge(d) PROVE [R!Next]_(R!vars)
<1>1. UNCHANGED <<InForce(row), committed \ {InForce(row)}>>
  BY DEF Acknowledge, InForce
<1>2. /\ sess'[d].state = "applied" /\ sess'[d].manual = TRUE
      /\ sess'[d].bound = sess[d].bound
      /\ \A e \in Sessions : e # d => sess'[e] = sess[e]
  BY DEF Acknowledge, IInv, TypeOK, Session
<1>3. Review[d].state = "open" /\ Review' = [Review EXCEPT ![d].state = "repaired"]
  BY <1>2 DEF Acknowledge, Review
<1>4. R!Repair(d)
  BY <1>1, <1>3 DEF R!Repair
<1> QED BY <1>4 DEF R!Next

\* The other steps are none of ReviewedPause's.
LEMMA OthersMap ==
    ASSUME UNCHANGED <<row, committed, sess>> PROVE UNCHANGED R!vars
BY MappedStutter DEF InForce

LEMMA InitMaps == Init => R!Init
<1> SUFFICES ASSUME Init PROVE R!Init
  OBVIOUS
<1>1. InForce(row) = NoGen /\ committed \ {InForce(row)} = {}
  BY DEF Init, InForce
<1>2. Review = [d \in Sessions |-> [on |-> NoGen, state |-> "none"]]
  BY DEF Init, Review, Unopened
<1> QED BY <1>1, <1>2 DEF R!Init

LEMMA NextMaps == IInv /\ [Next]_vars => [R!Next]_(R!vars)
<1> SUFFICES ASSUME IInv, [Next]_vars PROVE [R!Next]_(R!vars)
  OBVIOUS
<1>1. ASSUME NEW t \in Jobs, Call(t) \/ WriteStatus(t) \/ ClearToken(t) \/ SettleEffect(t)
      PROVE  [R!Next]_(R!vars)
  BY <1>1, CallMaps, EaseMaps, SettleMaps
<1>2. ASSUME NEW t \in Jobs, NEW s \in Servers, NEW d \in Sessions, ClaimEffect(t, s, d)
      PROVE  [R!Next]_(R!vars)
  BY <1>2, ClaimMaps
<1>3. ASSUME NEW d \in Sessions, OpenSession(d) \/ Resolve(d) \/ Quarantine(d) \/ Acknowledge(d)
      PROVE  [R!Next]_(R!vars)
  BY <1>3, OpenMaps, ResolveMaps, QuarantineMaps, AcknowledgeMaps
<1>4. CASE UNCHANGED <<row, committed, sess>>
  BY <1>4, OthersMap
<1>5. ASSUME Next,
             \A t \in Jobs : ~(Call(t) \/ WriteStatus(t) \/ ClearToken(t) \/ SettleEffect(t)),
             \A t \in Jobs, s \in Servers, d \in Sessions : ~ClaimEffect(t, s, d),
             \A d \in Sessions : ~(OpenSession(d) \/ Resolve(d) \/ Quarantine(d) \/ Acknowledge(d))
      PROVE  UNCHANGED <<row, committed, sess>>
  BY <1>5 DEF Next, StartPause, StartLift, StartResume, StartArchive, PublishPause, PublishLift,
              Mirror, PublishResume, Drop, Restart
<1> QED BY <1>1, <1>2, <1>3, <1>4, <1>5 DEF vars

\* The durable rows, the jobs and the reviews implement the abstract pauses: a
\* generation that ended never comes back, and none is settled before its end.
THEOREM PausesAreReviewed == Spec => R!Spec /\ RefinesReviewedPause
<1>1. Init => R!Init
  BY InitMaps
<1>2. IInv /\ [Next]_vars => [R!Next]_(R!vars)
  BY NextMaps
<1>3. IInv /\ [Next]_vars => [UNCHANGED R!vars \/ R!Next]_vars
  BY <1>2
<1> QED BY <1>1, <1>2, <1>3, PauseInvariant, PTL DEF Spec, RefinesReviewedPause, R!Spec
=============================================================================
