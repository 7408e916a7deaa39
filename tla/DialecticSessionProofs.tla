----------------------- MODULE DialecticSessionProofs -----------------------
(***************************************************************************)
(* Proofs about DialecticSession, for every set of agents and workers and  *)
(* every bound.                                                            *)
(***************************************************************************)
EXTENDS DialecticSession, TLAPS

\* A session in synthesis has an independent reviewer that gave its antithesis,
\* or the paused agent reviews itself.
SynthesisReviewed ==
    row.phase = "synthesis" /\ row.reviewer # Paused =>
        /\ row.reviewer # NoOne
        /\ \E i \in DOMAIN log : log[i].kind = "antithesis" /\ log[i].by # Paused

IsVerdict(m) == m.kind \in {"approve", "reject"}

\* The paused agent never becomes the reviewer later, so while it is no other
\* agent has given a verdict.
SelfReviewAlone ==
    row.reviewer = Paused => \A i \in DOMAIN log : IsVerdict(log[i]) => log[i].by = Paused

\* Independent verdicts have a last one.
LastVerdictKnown ==
    Verdicts(log, NoOne) # {} => \E i \in DOMAIN log : LastVerdict(log, NoOne, i)

\* The first n messages end the independent review with an approval.
Approved(n) ==
    \E i \in 1 .. n :
        /\ log[i].kind = "approve" /\ log[i].by # Paused
        /\ \A j \in 1 .. n : IsVerdict(log[j]) /\ log[j].by # Paused => j <= i

Deciding(w) == job[w].step \in {"deciding", "claimed"}

\* A decision in flight was taken on the transcript as it stood at its frontier.
DecidedOnApproval ==
    \A w \in Workers : Deciding(w) =>
        /\ job[w].outcome \in {"resume", "failure"}
        /\ job[w].outcome = "resume" =>
             /\ job[w].rev \in 1 .. Len(log)
             /\ log[job[w].rev].kind = "approve"
             /\ log[job[w].rev].by \in {Paused, job[w].seen.reviewer}
             /\ job[w].seen.reviewer # Paused => Approved(job[w].rev)

\* A session closed by a standing rejection asks for nobody.
ClosedQuietly == decision = "rejection_stands" => row.status = "failed" /\ ~row.awaiting

Review == SynthesisReviewed /\ SelfReviewAlone /\ LastVerdictKnown

IInv ==
    /\ TypeOK /\ Review /\ DecidedOnApproval /\ ClosedQuietly
    /\ ResolvedIsAuthorised /\ RejectionClosedTruly /\ OneAnswerPerRejection

-----------------------------------------------------------------------------
(* Types.                                                                   *)

LEMMA BecomesFacts ==
    ASSUME NEW w \in Workers, NEW j \in Job, job \in [Workers -> Job], Becomes(w, j)
    PROVE  /\ job' \in [Workers -> Job]
           /\ job'[w] = j
           /\ \A v \in Workers : v # w => job'[v] = job[v]
BY DEF Becomes

LEMMA FreeTyped == Free \in Job
<1>1. 0 \in 0 .. MaxLog /\ 0 \in 0 .. 2
  BY BoundsAssumption
<1>2. Read(Fresh(NoOne)) \in Seen
  BY DEF Seen, Read, Fresh, Phases
<1>3. QED
  BY <1>1, <1>2 DEF Free, Job, Steps, Decisions

LEMMA ReleaseFacts ==
    ASSUME NEW w \in Workers, job \in [Workers -> Job], unclaimed \subseteq Workers,
           Release(w)
    PROVE  /\ job' \in [Workers -> Job]
           /\ unclaimed' \subseteq Workers
           /\ job'[w].step = "free"
           /\ \A v \in Workers : v # w => job'[v] = job[v]
<1>1. Becomes(w, Free)
  BY DEF Release
<1>2. /\ job' \in [Workers -> Job]
      /\ job'[w] = Free
      /\ \A v \in Workers : v # w => job'[v] = job[v]
  BY <1>1, FreeTyped, BecomesFacts
<1>3. QED
  BY <1>2 DEF Release, Free

LEMMA JobFields ==
    ASSUME NEW j \in Job
    PROVE  /\ j.step \in Steps /\ j.seen \in Seen /\ j.rev \in 0 .. MaxLog
           /\ j.outcome \in Decisions /\ j.age \in 0 .. 2
           /\ j.seen.phase \in Phases /\ j.seen.reviewer \in Agents \cup {NoOne}
           /\ j.seen.awaiting \in BOOLEAN
BY DEF Job, Seen

LEMMA RowFields ==
    ASSUME NEW r \in Row
    PROVE  /\ r.status \in {"active", "resolved", "failed"} /\ r.phase \in Phases
           /\ r.reviewer \in Agents \cup {NoOne} /\ r.awaiting \in BOOLEAN
           /\ r.round \in 0 .. MaxRounds + 1
           /\ Read(r) \in Seen
BY DEF Row, Read, Seen

\* Appending one message.
LEMMA AppendFacts ==
    ASSUME NEW m \in Message, log \in Seq(Message), log' = Append(log, m)
    PROVE  /\ log' \in Seq(Message)
           /\ Len(log') = Len(log) + 1 /\ Len(log) \in Nat
           /\ DOMAIN log = 1 .. Len(log) /\ DOMAIN log' = 1 .. Len(log) + 1
           /\ \A i \in 1 .. Len(log) : log'[i] = log[i]
           /\ log'[Len(log) + 1] = m
OBVIOUS

LEMMA AddMessageTyped ==
    ASSUME TypeOK, NEW kind, NEW by, NEW newRow, newRow \in Row,
           [kind |-> kind, by |-> by] \in Message, AddMessage(kind, by, newRow)
    PROVE  /\ row' \in Row /\ log' \in Seq(Message) /\ Len(log') <= MaxLog
           /\ Len(log') = Len(log) + 1
           /\ idle' \in 0 .. 2 /\ current' \subseteq Workers
           /\ decision' = decision /\ saga' = saga
<1>1. log \in Seq(Message) /\ Len(log) < MaxLog /\ log' = Append(log, [kind |-> kind, by |-> by])
  BY DEF TypeOK, AddMessage
<1>2. log' \in Seq(Message) /\ Len(log') = Len(log) + 1 /\ Len(log) \in Nat
  BY <1>1, AppendFacts
<1>3. QED
  BY <1>1, <1>2, BoundsAssumption DEF AddMessage, Touch

LEMMA CloseTyped ==
    ASSUME TypeOK, NEW outcome \in Decisions, Close(outcome)
    PROVE  /\ row' \in Row /\ decision' \in Decisions /\ log' = log
           /\ idle' \in 0 .. 2 /\ current' \subseteq Workers
<1>1. row \in Row
  BY DEF TypeOK
<1>2. row' \in Row
  BY <1>1 DEF Close, Row, Phases
<1>3. QED
  BY <1>2 DEF Close, Touch

LEMMA InitType == Init => TypeOK
<1> SUFFICES ASSUME Init PROVE TypeOK
  OBVIOUS
<1>1. NoOne \in Agents \cup {NoOne} /\ Paused \in Agents /\ Reviewers \subseteq Agents /\ Authors \subseteq Agents
  BY DEF Agents
<1>2. /\ row \in Row /\ log \in Seq(Message) /\ Len(log) <= MaxLog
      /\ decision \in Decisions
  <2>1. CASE Opened
    <3>1. PICK r \in {NoOne, Paused} \cup Reviewers : row = Fresh(r)
      BY <2>1 DEF Opened
    <3>2. row \in Row
      BY <1>1, <3>1, BoundsAssumption DEF Fresh, Row, Phases
    <3>3. QED
      BY <2>1, <3>2, BoundsAssumption DEF Opened, Decisions
  <2>2. CASE LeftAsking
    <3>1. PICK r \in Reviewers :
            row = [Fresh(r) EXCEPT !.status = "failed", !.phase = "failed", !.awaiting = TRUE]
      BY <2>2 DEF LeftAsking
    <3>a. row = [status |-> "failed", phase |-> "failed", reviewer |-> r,
                 awaiting |-> TRUE, round |-> 0]
      BY <3>1 DEF Fresh
    <3>b. r \in Agents \cup {NoOne} /\ 0 \in 0 .. MaxRounds + 1
      BY <1>1, BoundsAssumption
    <3>2. row \in Row
      BY <3>a, <3>b DEF Row, Phases
    <3>3. [kind |-> "thesis", by |-> Paused] \in Message
      BY <1>1 DEF Message
    <3>4. log \in Seq(Message) /\ Len(log) = 1
      BY <2>2, <3>3 DEF LeftAsking
    <3>5. QED
      BY <2>2, <3>2, <3>4, BoundsAssumption DEF LeftAsking, Decisions
  <2>3. CASE LeftRecused
    <3>1. PICK a \in Authors :
            /\ row = [Fresh(a) EXCEPT !.phase = "synthesis", !.round = 1]
            /\ log = <<[kind |-> "thesis", by |-> Paused], [kind |-> "antithesis", by |-> a]>>
      BY <2>3 DEF LeftRecused
    <3>a. row = [status |-> "active", phase |-> "synthesis", reviewer |-> a,
                 awaiting |-> FALSE, round |-> 1]
      BY <3>1 DEF Fresh
    <3>b. a \in Agents \cup {NoOne} /\ 1 \in 0 .. MaxRounds + 1
      BY <1>1, BoundsAssumption
    <3>2. row \in Row
      BY <3>a, <3>b DEF Row, Phases
    <3>3. /\ [kind |-> "thesis", by |-> Paused] \in Message
          /\ [kind |-> "antithesis", by |-> a] \in Message
      BY <1>1 DEF Message
    <3>4. log \in Seq(Message) /\ Len(log) = 2
      BY <3>1, <3>3
    <3>5. QED
      BY <2>3, <3>2, <3>4, BoundsAssumption DEF LeftRecused, Decisions
  <2>4. QED
    BY <2>1, <2>2, <2>3 DEF Init
<1>4. job \in [Workers -> Job]
  BY FreeTyped DEF Init
<1>5. QED
  BY <1>2, <1>4 DEF Init, TypeOK

\* A worker that says something and is done keeps every type.
LEMMA SaidTyped ==
    ASSUME TypeOK, NEW w \in Workers, NEW kind, NEW by, NEW newRow, newRow \in Row,
           [kind |-> kind, by |-> by] \in Message,
           AddMessage(kind, by, newRow), Release(w)
    PROVE  TypeOK'
<1>1. /\ row' \in Row /\ log' \in Seq(Message) /\ Len(log') <= MaxLog
      /\ idle' \in 0 .. 2 /\ current' \subseteq Workers
      /\ decision' = decision /\ saga' = saga
  BY AddMessageTyped
<1>2. job' \in [Workers -> Job] /\ unclaimed' \subseteq Workers
  BY ReleaseFacts DEF TypeOK
<1>3. QED
  BY <1>1, <1>2 DEF TypeOK

LEMMA ClosedTyped ==
    ASSUME TypeOK, NEW w \in Workers, NEW outcome \in Decisions, Close(outcome), Release(w),
           saga' \in Workers \cup {NoOne}
    PROVE  TypeOK'
<1>1. /\ row' \in Row /\ decision' \in Decisions /\ log' = log
      /\ idle' \in 0 .. 2 /\ current' \subseteq Workers
  BY CloseTyped
<1>2. job' \in [Workers -> Job] /\ unclaimed' \subseteq Workers
  BY ReleaseFacts DEF TypeOK
<1>3. QED
  BY <1>1, <1>2 DEF TypeOK

\* The row as the statements that move it leave it.
LEMMA RowMoves ==
    ASSUME TypeOK
    PROVE  /\ row \in Row
           /\ \A b \in BOOLEAN : [row EXCEPT !.awaiting = b] \in Row
           /\ \A r \in Agents, b \in BOOLEAN :
                [row EXCEPT !.reviewer = r, !.awaiting = b] \in Row
           /\ \A b \in BOOLEAN : [row EXCEPT !.phase = "antithesis", !.awaiting = b] \in Row
           /\ \A a \in Agents, b \in BOOLEAN :
                [row EXCEPT !.phase = "synthesis", !.reviewer = a, !.round = 1,
                            !.awaiting = b] \in Row
           /\ \A r \in Agents, ph \in Phases :
                [row EXCEPT !.reviewer = r, !.awaiting = FALSE, !.status = "active",
                            !.phase = ph] \in Row
<1>1. row \in Row
  BY DEF TypeOK
<1>2. 1 \in 0 .. MaxRounds + 1
  BY BoundsAssumption
<1>3. \A b \in BOOLEAN : [row EXCEPT !.awaiting = b] \in Row
  BY <1>1 DEF Row
<1>4. \A r \in Agents, b \in BOOLEAN : [row EXCEPT !.reviewer = r, !.awaiting = b] \in Row
  BY <1>1 DEF Row
<1>5. \A b \in BOOLEAN : [row EXCEPT !.phase = "antithesis", !.awaiting = b] \in Row
  BY <1>1 DEF Row, Phases
<1>6. \A a \in Agents, b \in BOOLEAN :
        [row EXCEPT !.phase = "synthesis", !.reviewer = a, !.round = 1, !.awaiting = b] \in Row
  BY <1>1, <1>2 DEF Row, Phases
<1>7. \A r \in Agents, ph \in Phases :
        [row EXCEPT !.reviewer = r, !.awaiting = FALSE, !.status = "active",
                    !.phase = ph] \in Row
  BY <1>1 DEF Row
<1>8. QED
  BY <1>1, <1>3, <1>4, <1>5, <1>6, <1>7

\* A round may begin while the limit is not passed.
LEMMA RowRounds ==
    ASSUME TypeOK, row.round <= MaxRounds, NEW b \in BOOLEAN
    PROVE  /\ [row EXCEPT !.round = @ + 1] \in Row
           /\ [row EXCEPT !.round = @ + 1, !.awaiting = b] \in Row
<1>1. row \in Row /\ row.round \in 0 .. MaxRounds + 1
  BY RowFields DEF TypeOK
<1>2. row.round + 1 \in 0 .. MaxRounds + 1
  BY <1>1, BoundsAssumption
<1>3. [row EXCEPT !.round = @ + 1] \in Row
  BY <1>1, <1>2 DEF Row
<1>4. [row EXCEPT !.round = @ + 1, !.awaiting = b] \in Row
  BY <1>1, <1>2 DEF Row
<1>5. QED
  BY <1>3, <1>4

LEMMA MessagesTyped ==
    \A k \in {"thesis", "antithesis", "approve", "reject", "system"},
       a \in Agents \cup {NoOne} : [kind |-> k, by |-> a] \in Message
BY DEF Message

\* What a worker keeps in its slot.
LEMMA JobMoves ==
    ASSUME TypeOK, NEW w \in Workers
    PROVE  /\ job[w] \in Job
           /\ \A st \in Steps : [job[w] EXCEPT !.step = st] \in Job
           /\ \A st \in Steps, d \in Decisions :
                [job[w] EXCEPT !.step = st, !.outcome = d] \in Job
           /\ \A st \in Steps, n \in 0 .. MaxLog, d \in Decisions :
                [job[w] EXCEPT !.step = st, !.rev = n, !.outcome = d] \in Job
           /\ \A st \in Steps, s \in Seen : [job[w] EXCEPT !.step = st, !.seen = s] \in Job
           /\ \A st \in Steps, s \in Seen, n \in 0 .. MaxLog :
                [Free EXCEPT !.step = st, !.seen = s, !.rev = n] \in Job
           /\ \A st \in Steps, s \in Seen, n \in 0 .. MaxLog, g \in 0 .. 2 :
                [Free EXCEPT !.step = st, !.seen = s, !.rev = n, !.age = g] \in Job
<1>1. job[w] \in Job /\ Free \in Job
  BY FreeTyped DEF TypeOK
<1>2. \A st \in Steps : [job[w] EXCEPT !.step = st] \in Job
  BY <1>1 DEF Job
<1>3. \A st \in Steps, d \in Decisions : [job[w] EXCEPT !.step = st, !.outcome = d] \in Job
  BY <1>1 DEF Job
<1>4. \A st \in Steps, n \in 0 .. MaxLog, d \in Decisions :
        [job[w] EXCEPT !.step = st, !.rev = n, !.outcome = d] \in Job
  BY <1>1 DEF Job
<1>5. \A st \in Steps, s \in Seen : [job[w] EXCEPT !.step = st, !.seen = s] \in Job
  BY <1>1 DEF Job
<1>6. \A st \in Steps, s \in Seen, n \in 0 .. MaxLog :
        [Free EXCEPT !.step = st, !.seen = s, !.rev = n] \in Job
  BY <1>1 DEF Job
<1>7. \A st \in Steps, s \in Seen, n \in 0 .. MaxLog, g \in 0 .. 2 :
        [Free EXCEPT !.step = st, !.seen = s, !.rev = n, !.age = g] \in Job
  BY <1>1 DEF Job
<1>8. QED
  BY <1>1, <1>2, <1>3, <1>4, <1>5, <1>6, <1>7

LEMMA TypeStep == TypeOK /\ [Next]_vars => TypeOK'
<1> SUFFICES ASSUME TypeOK, [Next]_vars PROVE TypeOK'
  OBVIOUS
<1>a. /\ row \in Row /\ log \in Seq(Message) /\ Len(log) \in 0 .. MaxLog
      /\ Read(row) \in Seen
      /\ row.awaiting \in BOOLEAN /\ row.reviewer \in Agents \cup {NoOne}
  BY RowFields, BoundsAssumption DEF TypeOK
<1>b. Reviewers \subseteq Agents /\ Paused \in Agents
  BY DEF Agents
<1>c. job \in [Workers -> Job] /\ unclaimed \subseteq Workers
  BY DEF TypeOK
<1>d. ASSUME NEW w \in Workers, NEW j \in Job, Becomes(w, j)
      PROVE  job' \in [Workers -> Job]
  BY <1>c, <1>d, BecomesFacts
<1>e. ASSUME NEW w \in Workers, Release(w)
      PROVE  job' \in [Workers -> Job] /\ unclaimed' \subseteq Workers
  BY <1>c, <1>e, ReleaseFacts
<1>1. ASSUME NEW w \in Workers, Submit(w) PROVE TypeOK'
  <2>1. CASE Load(w)
    <3>1. [Free EXCEPT !.step = "loaded", !.seen = Read(row), !.rev = Len(log)] \in Job
      BY <1>a, JobMoves DEF Steps
    <3>2. job' \in [Workers -> Job]
      BY <2>1, <3>1, <1>d DEF Load
    <3>3. QED
      BY <2>1, <3>2 DEF Load, TypeOK
  <2>2. CASE Thesis(w)
    <3>1. [row EXCEPT !.phase = "antithesis", !.awaiting = @ /\ row.reviewer # NoOne] \in Row
      BY <1>a DEF Row, Phases
    <3>2. [kind |-> "thesis", by |-> Paused] \in Message
      BY <1>b, MessagesTyped
    <3>3. QED
      BY <2>2, <3>1, <3>2, SaidTyped DEF Thesis
  <2>3. CASE Antithesis(w)
    <3>1. PICK a \in Agents :
            AddMessage("antithesis", a,
                       [row EXCEPT !.phase = "synthesis", !.reviewer = a, !.round = 1,
                                   !.awaiting = @ /\ a = Paused])
      BY <2>3 DEF Antithesis
    <3>2. 1 \in 0 .. MaxRounds + 1
      BY BoundsAssumption
    <3>3. [row EXCEPT !.phase = "synthesis", !.reviewer = a, !.round = 1,
                      !.awaiting = @ /\ a = Paused] \in Row
      BY <1>a, <3>2 DEF Row, Phases
    <3>4. [kind |-> "antithesis", by |-> a] \in Message
      BY MessagesTyped
    <3>5. QED
      BY <2>3, <3>1, <3>3, <3>4, SaidTyped DEF Antithesis
  <2>4. CASE Reject(w)
    <3>1. PICK a \in {Paused, row.reviewer} \ {NoOne} :
            AddMessage("reject", a, [row EXCEPT !.round = @ + 1])
      BY <2>4 DEF Reject
    <3>2. [row EXCEPT !.round = @ + 1] \in Row
      BY <2>4, RowRounds DEF Reject, InSynthesis
    <3>3. [kind |-> "reject", by |-> a] \in Message
      BY <1>a, <1>b, MessagesTyped
    <3>4. QED
      BY <2>4, <3>1, <3>2, <3>3, SaidTyped DEF Reject
  <2>5. CASE AnswerObjection(w)
    <3>1. [row EXCEPT !.round = @ + 1, !.awaiting = TRUE] \in Row
      BY <2>5, RowRounds DEF AnswerObjection, InSynthesis
    <3>2. [kind |-> "approve", by |-> Paused] \in Message
      BY <1>b, MessagesTyped
    <3>3. QED
      BY <2>5, <3>1, <3>2, SaidTyped DEF AnswerObjection
  <2>6. CASE Converge(w)
    <3>1. PICK a \in {Paused, row.reviewer} \ {NoOne}, outcome \in {"resume", "failure"} :
            /\ AddMessage("approve", a, row)
            /\ Becomes(w, [job[w] EXCEPT !.step = "deciding", !.rev = Len(log) + 1,
                                         !.outcome = outcome])
      BY <2>6 DEF Converge
    <3>2. [kind |-> "approve", by |-> a] \in Message
      BY <1>a, <1>b, MessagesTyped
    <3>3. /\ row' \in Row /\ log' \in Seq(Message) /\ Len(log') <= MaxLog
          /\ idle' \in 0 .. 2 /\ current' \subseteq Workers
          /\ decision' = decision /\ saga' = saga
      BY <3>1, <3>2, <1>a, AddMessageTyped
    <3>4. Len(log) + 1 \in 0 .. MaxLog
      BY <3>1, <1>a, BoundsAssumption DEF AddMessage
    <3>5. [job[w] EXCEPT !.step = "deciding", !.rev = Len(log) + 1, !.outcome = outcome] \in Job
      BY <3>4, JobMoves DEF Steps, Decisions
    <3>6. job' \in [Workers -> Job]
      BY <3>1, <3>5, <1>d
    <3>7. QED
      BY <2>6, <3>3, <3>6 DEF Converge, TypeOK
  <2>7. CASE DecideFailure(w)
    <3>1. [job[w] EXCEPT !.step = "deciding", !.outcome = "failure"] \in Job
      BY JobMoves DEF Steps, Decisions
    <3>2. job' \in [Workers -> Job]
      BY <2>7, <3>1, <1>d DEF DecideFailure
    <3>3. QED
      BY <2>7, <3>2 DEF DecideFailure, TypeOK
  <2>8. CASE RaiseHand(w)
    <3>1. [row EXCEPT !.awaiting = TRUE] \in Row
      BY RowMoves
    <3>2. QED
      BY <2>8, <3>1, <1>e DEF RaiseHand, Touch, TypeOK
  <2>9. CASE ReportStuck(w)
    <3>1. [row EXCEPT !.awaiting = TRUE] \in Row
      BY RowMoves
    <3>2. [kind |-> "system", by |-> NoOne] \in Message
      BY MessagesTyped
    <3>3. QED
      BY <2>9, <3>1, <3>2, SaidTyped DEF ReportStuck
  <2>10. CASE Reassign(w)
    <3> DEFINE ph == IF Live THEN Rewound(row) ELSE Reopened
    <3>1. PICK r \in Reviewers :
            AddMessage("system", NoOne,
                       [row EXCEPT !.reviewer = r, !.awaiting = FALSE, !.status = "active",
                                   !.phase = ph])
      BY <2>10 DEF Reassign
    <3>2. ph \in Phases
      BY RowFields, <1>a DEF Rewound, Reopened, Phases
    <3> HIDE DEF ph
    <3>3. [row EXCEPT !.reviewer = r, !.awaiting = FALSE, !.status = "active",
                      !.phase = ph] \in Row
      BY <1>b, <3>2, RowMoves
    <3>4. [kind |-> "system", by |-> NoOne] \in Message
      BY MessagesTyped
    <3>5. QED
      BY <2>10, <3>1, <3>3, <3>4, SaidTyped DEF Reassign
  <2>11. QED
    BY <1>1, <2>1, <2>2, <2>3, <2>4, <2>5, <2>6, <2>7, <2>8, <2>9, <2>10 DEF Submit
<1>2. ASSUME NEW w \in Workers, Settle(w) PROVE TypeOK'
  <2>a. job[w].outcome \in Decisions
    BY JobFields, <1>c
  <2>1. CASE CommitHere(w)
    BY <2>1, <2>a, ClosedTyped DEF CommitHere, TypeOK
  <2>2. CASE Claim(w)
    <3>1. [job[w] EXCEPT !.step = "claimed"] \in Job
      BY JobMoves DEF Steps
    <3>2. job' \in [Workers -> Job]
      BY <2>2, <3>1, <1>d DEF Claim
    <3>3. QED
      BY <2>2, <3>2 DEF Claim, TypeOK
  <2>3. CASE ClaimTooLate(w)
    BY <2>3, <1>e DEF ClaimTooLate, TypeOK
  <2>4. CASE CommitClaimed(w)
    BY <2>4, <2>a, ClosedTyped DEF CommitClaimed
  <2>5. CASE CommitRefused(w)
    BY <2>5, <1>e DEF CommitRefused, TypeOK
  <2>6. QED
    BY <1>2, <2>1, <2>2, <2>3, <2>4, <2>5 DEF Settle
<1>3. ASSUME NEW w \in Workers, Sweep(w) PROVE TypeOK'
  <2>1. CASE SweepRead(w)
    <3>1. [Free EXCEPT !.step = "swept", !.seen = Read(row), !.rev = Len(log),
                       !.age = idle] \in Job
      BY <1>a, JobMoves DEF Steps, TypeOK
    <3>2. job' \in [Workers -> Job]
      BY <2>1, <3>1, <1>d DEF SweepRead
    <3>3. QED
      BY <2>1, <3>2 DEF SweepRead, TypeOK
  <2>2. CASE SweepRejection(w)
    <3>1. "rejection_stands" \in Decisions
      BY DEF Decisions
    <3>2. QED
      BY <2>2, <3>1, ClosedTyped DEF SweepRejection, TypeOK
  <2>3. CASE SweepReassign(w)
    <3>1. PICK r \in Reviewers :
            /\ row' = [row EXCEPT !.reviewer = r, !.awaiting = FALSE]
            /\ Becomes(w, [job[w] EXCEPT !.step = "narrate", !.seen = Read(row')])
      BY <2>3 DEF SweepReassign
    <3>2. row' \in Row
      BY <1>b, <3>1, RowMoves
    <3>3. Read(row') \in Seen
      BY <3>2, RowFields
    <3>4. [job[w] EXCEPT !.step = "narrate", !.seen = Read(row')] \in Job
      BY <3>3, JobMoves DEF Steps
    <3>5. job' \in [Workers -> Job]
      BY <3>1, <3>4, <1>d
    <3>6. QED
      BY <2>3, <3>2, <3>5 DEF SweepReassign, Touch, TypeOK
  <2>4. CASE SweepFlag(w)
    <3>1. row' \in Row
      BY <2>4, RowMoves DEF SweepFlag
    <3>2. Read(row') \in Seen
      BY <3>1, RowFields
    <3>3. [job[w] EXCEPT !.step = "narrate", !.seen = Read(row')] \in Job
      BY <3>2, JobMoves DEF Steps
    <3>4. job' \in [Workers -> Job]
      BY <2>4, <3>3, <1>d DEF SweepFlag
    <3>5. QED
      BY <2>4, <3>1, <3>4, <1>d DEF SweepFlag, Touch, TypeOK
  <2>5. CASE SweepNarrate(w)
    <3>1. [kind |-> "system", by |-> NoOne] \in Message
      BY MessagesTyped
    <3>2. QED
      BY <2>5, <3>1, <1>a, SaidTyped DEF SweepNarrate
  <2>6. CASE SweepReap(w)
    <3>1. "failure" \in Decisions
      BY DEF Decisions
    <3>2. QED
      BY <2>6, <3>1, ClosedTyped DEF SweepReap, TypeOK
  <2>7. QED
    BY <1>3, <2>1, <2>2, <2>3, <2>4, <2>5, <2>6 DEF Sweep
<1>4. ASSUME NEW w \in Workers, GiveUp(w) PROVE TypeOK'
  BY <1>4, <1>e DEF GiveUp, TypeOK
<1>5. CASE Reclaim
  BY <1>5 DEF Reclaim, TypeOK
<1>6. CASE Tick
  BY <1>6 DEF Tick, TypeOK
<1>7. CASE UNCHANGED vars
  BY <1>7 DEF vars, TypeOK
<1>8. QED
  BY <1>1, <1>2, <1>3, <1>4, <1>5, <1>6, <1>7 DEF Next

\* Every part of the session keeps its type: the round never passes the limit by
\* more than the one that is refused, and statuses and phases stay among the ones
\* the code knows.
THEOREM DialecticTypeCorrect == Spec => []TypeOK
<1>1. Init => TypeOK
  BY InitType
<1>2. TypeOK /\ [Next]_vars => TypeOK'
  BY TypeStep
<1>3. QED
  BY <1>1, <1>2, PTL DEF Spec

-----------------------------------------------------------------------------
(* What a step does to the session.                                         *)

\* The steps that only move workers and clocks.
Idles(w) ==
    \/ Load(w) \/ DecideFailure(w) \/ Claim(w) \/ ClaimTooLate(w) \/ CommitRefused(w)
    \/ SweepRead(w) \/ GiveUp(w)

\* The steps that add a message.
Speaks(w) ==
    \/ Thesis(w) \/ Antithesis(w) \/ Reject(w) \/ AnswerObjection(w) \/ Converge(w)
    \/ ReportStuck(w) \/ Reassign(w) \/ SweepNarrate(w)

\* The steps that move the row and say nothing.
Moves(w) == RaiseHand(w) \/ SweepReassign(w) \/ SweepFlag(w)

\* The steps that end the session.
Ends(w) == CommitHere(w) \/ CommitClaimed(w) \/ SweepRejection(w) \/ SweepReap(w)

LEMMA StepKinds ==
    ASSUME [Next]_vars
    PROVE  \/ \E w \in Workers : Idles(w) \/ Speaks(w) \/ Moves(w) \/ Ends(w)
           \/ Reclaim \/ Tick \/ UNCHANGED vars
BY DEF Next, Submit, Settle, Sweep, Idles, Speaks, Moves, Ends

LEMMA IdlesKeepsSession ==
    ASSUME NEW w \in Workers, Idles(w)
    PROVE  UNCHANGED <<row, log, decision>>
BY DEF Idles, Load, DecideFailure, Claim, ClaimTooLate, CommitRefused, SweepRead, GiveUp

LEMMA OthersKeepSession ==
    ASSUME Reclaim \/ Tick \/ UNCHANGED vars
    PROVE  UNCHANGED <<row, log, decision>> /\ UNCHANGED job
BY DEF Reclaim, Tick, vars

LEMMA SpeaksInLife ==
    ASSUME NEW w \in Workers, Speaks(w)
    PROVE  Live \/ (row.status = "failed" /\ row.awaiting)
BY DEF Speaks, Thesis, Antithesis, Reject, AnswerObjection, Converge, InSynthesis, Submits,
       ReportStuck, Reassign, SweepNarrate

LEMMA MovesInLife ==
    ASSUME NEW w \in Workers, Moves(w)
    PROVE  Live
BY DEF Moves, RaiseHand, SweepReassign, SweepFlag, SweepAdmits

LEMMA EndsInLife ==
    ASSUME NEW w \in Workers, Ends(w)
    PROVE  Live /\ Matches(job[w]) /\ log' = log
BY DEF Ends, CommitHere, CommitClaimed, Admits, SweepRejection, SweepReap, SweepAdmits, Close

LEMMA FinalStep ==
    ASSUME [Next]_vars,
           row.status = "resolved" \/ (row.status = "failed" /\ ~row.awaiting)
    PROVE  UNCHANGED <<row, log, decision>>
<1>1. ~Live /\ ~(row.status = "failed" /\ row.awaiting)
  BY DEF Live
<1>2. CASE \E w \in Workers : Idles(w) \/ Speaks(w) \/ Moves(w) \/ Ends(w)
  BY <1>1, <1>2, IdlesKeepsSession, SpeaksInLife, MovesInLife, EndsInLife
<1>3. CASE Reclaim \/ Tick \/ UNCHANGED vars
  BY <1>3, OthersKeepSession
<1>4. QED
  BY <1>2, <1>3, StepKinds

\* No worker, however late, changes a session that ended and asks for nobody.
THEOREM DecisionsAreFinal == Spec => DecisionIsFinal
<1>1. [Next]_vars =>
        [(row.status = "resolved" \/ (row.status = "failed" /\ ~row.awaiting))
           => UNCHANGED <<row, log, decision>>]_vars
  BY FinalStep
<1>2. QED
  BY <1>1, PTL DEF Spec, DecisionIsFinal

-----------------------------------------------------------------------------
(* The claim.                                                               *)

LEMMA SpeaksKeepsLife ==
    ASSUME TypeOK, NEW w \in Workers, Speaks(w)
    PROVE  row'.status = row.status \/ row'.status = "active"
<1>a. row \in Row
  BY DEF TypeOK
<1>1. CASE Reassign(w)
  <2>1. PICK r \in Reviewers \ Away :
          row' = [row EXCEPT !.reviewer = r, !.awaiting = FALSE, !.status = "active",
                             !.phase = IF Live THEN Rewound(row) ELSE Reopened]
    BY <1>1 DEF Reassign, AddMessage
  <2>2. QED
    BY <1>a, <2>1 DEF Row
<1>2. CASE Antithesis(w)
  <2>1. PICK a \in Agents :
          row' = [row EXCEPT !.phase = "synthesis", !.reviewer = a, !.round = 1,
                             !.awaiting = @ /\ a = Paused]
    BY <1>2 DEF Antithesis, AddMessage
  <2>2. QED
    BY <1>a, <2>1 DEF Row
<1>3. CASE Thesis(w)
  BY <1>3, <1>a DEF Thesis, AddMessage, Row
<1>4. CASE Reject(w) \/ AnswerObjection(w)
  BY <1>4, <1>a DEF Reject, AnswerObjection, AddMessage, Row
<1>5. CASE Converge(w) \/ ReportStuck(w) \/ SweepNarrate(w)
  BY <1>5, <1>a DEF Converge, ReportStuck, SweepNarrate, AddMessage, Row
<1>6. QED
  BY <1>1, <1>2, <1>3, <1>4, <1>5 DEF Speaks

LEMMA MovesKeepsLife ==
    ASSUME TypeOK, NEW w \in Workers, Moves(w)
    PROVE  row'.status = row.status
BY DEF Moves, RaiseHand, SweepReassign, SweepFlag, TypeOK, Row

\* Who may end a session, and whom its job leaves alone.
LEMMA EndsUnderClaim ==
    ASSUME TypeOK, NEW w \in Workers, Ends(w)
    PROVE  \/ /\ job[w].step = "claimed" /\ saga = w
              /\ decision' = job[w].outcome /\ job' = [job EXCEPT ![w] = Free]
           \/ /\ job[w].step # "claimed" /\ saga = NoOne
              /\ job' = [job EXCEPT ![w] = Free]
BY DEF Ends, CommitHere, CommitClaimed, SweepRejection, SweepReap, SweepAdmits, Close,
   Release, Becomes

LEMMA ClaimStep ==
    ASSUME TypeOK, [Next]_vars, Live, ~Live', NEW v \in Workers
    PROVE  /\ saga = v <=> job[v].step = "claimed" /\ job'[v].step = "free"
           /\ saga = v => decision' = job[v].outcome
<1>1. CASE \E w \in Workers : Ends(w)
  <2>1. PICK w \in Workers : Ends(w)
    BY <1>1
  <2>2. /\ job \in [Workers -> Job] /\ NoOne \notin Workers /\ Free.step = "free"
    BY AgentsAssumption DEF TypeOK, Free
  <2>3. job' = [job EXCEPT ![w] = Free]
    BY <2>1, EndsUnderClaim
  <2>4. CASE v = w
    BY <2>1, <2>2, <2>3, <2>4, EndsUnderClaim
  <2>5. CASE v # w
    <3>1. job'[v] = job[v] /\ saga # v
      BY <2>1, <2>2, <2>3, <2>5, EndsUnderClaim
    <3>2. QED
      BY <3>1
  <2>6. QED
    BY <2>4, <2>5
<1>2. CASE \E w \in Workers : Idles(w) \/ Speaks(w) \/ Moves(w)
  BY <1>2, IdlesKeepsSession, SpeaksKeepsLife, MovesKeepsLife DEF Live
<1>3. CASE Reclaim \/ Tick \/ UNCHANGED vars
  BY <1>3, OthersKeepSession DEF Live
<1>4. QED
  BY <1>1, <1>2, <1>3, StepKinds

\* A reserved claim is decided by its own resolver, and a resolver that lost its
\* claim, to the reaper or to a later one, decides nothing.
THEOREM ClaimsAreFenced == Spec => ReservedClaimDecides
<1>1. TypeOK /\ [Next]_vars =>
        [Live /\ ~Live' =>
           \A w \in Workers :
              /\ saga = w <=> job[w].step = "claimed" /\ job'[w].step = "free"
              /\ saga = w => decision' = job[w].outcome]_vars
  BY ClaimStep
<1>2. QED
  BY <1>1, DialecticTypeCorrect, PTL DEF Spec, ReservedClaimDecides

-----------------------------------------------------------------------------
(* The review.                                                              *)

\* What the next message m may be, and where it leaves the row.
ThesisTurn(m) ==
    m.kind = "thesis" /\ row'.phase = "antithesis" /\ row'.reviewer = row.reviewer

AntithesisTurn(m) ==
    /\ m.kind = "antithesis" /\ row'.phase = "synthesis" /\ row'.reviewer = m.by
    /\ m.by \in Agents /\ (m.by = row.reviewer \/ m.by # Paused)

VerdictTurn(m) ==
    /\ m.kind \in {"approve", "reject"}
    /\ row.phase = "synthesis" /\ row'.phase = "synthesis" /\ row'.reviewer = row.reviewer
    /\ m.by \in {Paused, row.reviewer} \ {NoOne}
    /\ m.kind = "approve" /\ m.by = Paused =>
         \/ ObjectionStands(log, row.reviewer) /\ ~AlreadyAnswered(log, row.reviewer)
         \/ ~ObjectionStands(log, row.reviewer) /\ ~VerdictPending(log, row.reviewer)

SystemTurn(m) ==
    /\ m.kind = "system"
    /\ \/ row'.phase = row.phase /\ row'.reviewer = row.reviewer
       \/ /\ row'.reviewer \in Reviewers
          /\ row'.phase = "synthesis" => row.phase = "synthesis" /\ row.reviewer # Paused

LEMMA SpeaksEffect ==
    ASSUME TypeOK, NEW w \in Workers, Speaks(w)
    PROVE  \E m \in Message :
             /\ log' = Append(log, m) /\ decision' = decision /\ row'.status = "active"
             /\ ThesisTurn(m) \/ AntithesisTurn(m) \/ VerdictTurn(m) \/ SystemTurn(m)
<1>a. /\ row \in Row /\ log \in Seq(Message)
      /\ row.reviewer \in Agents \cup {NoOne}
      /\ Reviewers \subseteq Agents /\ Paused \in Agents
  BY RowFields DEF TypeOK, Agents
<1>1. CASE Thesis(w)
  <2>1. [kind |-> "thesis", by |-> Paused] \in Message
    BY <1>a, MessagesTyped
  <2>2. QED
    BY <1>1, <1>a, <2>1 DEF Thesis, AddMessage, ThesisTurn, Submits, Live, Row
<1>2. CASE Antithesis(w)
  <2>1. PICK a \in Agents :
          /\ a = row.reviewer \/ (row.reviewer = NoOne /\ a # Paused)
          /\ AddMessage("antithesis", a,
                        [row EXCEPT !.phase = "synthesis", !.reviewer = a, !.round = 1,
                                    !.awaiting = @ /\ a = Paused])
    BY <1>2 DEF Antithesis
  <2>2. [kind |-> "antithesis", by |-> a] \in Message
    BY MessagesTyped
  <2>3. row'.phase = "synthesis" /\ row'.reviewer = a /\ row'.status = "active"
    BY <1>2, <1>a, <2>1 DEF AddMessage, Antithesis, Submits, Live, Row
  <2>4. QED
    BY <2>1, <2>2, <2>3 DEF AddMessage, AntithesisTurn
<1>3. CASE Reject(w)
  <2>1. PICK a \in {Paused, row.reviewer} \ {NoOne} :
          AddMessage("reject", a, [row EXCEPT !.round = @ + 1])
    BY <1>3 DEF Reject
  <2>2. [kind |-> "reject", by |-> a] \in Message
    BY <1>a, MessagesTyped
  <2>3. /\ row.phase = "synthesis" /\ row'.phase = "synthesis"
        /\ row'.reviewer = row.reviewer /\ row'.status = "active"
    BY <1>3, <1>a, <2>1 DEF AddMessage, Reject, InSynthesis, Submits, Live, Row
  <2>4. VerdictTurn([kind |-> "reject", by |-> a])
    BY <2>1, <2>3 DEF VerdictTurn
  <2>5. QED
    BY <2>1, <2>2, <2>3, <2>4 DEF AddMessage
<1>4. CASE AnswerObjection(w)
  <2>1. [kind |-> "approve", by |-> Paused] \in Message
    BY <1>a, MessagesTyped
  <2>2. /\ row.phase = "synthesis" /\ row'.phase = "synthesis"
        /\ row'.reviewer = row.reviewer /\ row'.status = "active"
    BY <1>4, <1>a DEF AddMessage, AnswerObjection, InSynthesis, Submits, Live, Row
  <2>3. VerdictTurn([kind |-> "approve", by |-> Paused])
    BY <1>4, <1>a, <2>2, AgentsAssumption DEF VerdictTurn, AnswerObjection
  <2>4. QED
    BY <1>4, <2>1, <2>2, <2>3 DEF AnswerObjection, AddMessage
<1>5. CASE Converge(w)
  <2>1. PICK a \in {Paused, row.reviewer} \ {NoOne} :
          /\ a = Paused => /\ ~VerdictPending(log, row.reviewer)
                           /\ ~ObjectionStands(log, row.reviewer)
          /\ AddMessage("approve", a, row)
    BY <1>5 DEF Converge
  <2>2. [kind |-> "approve", by |-> a] \in Message
    BY <1>a, MessagesTyped
  <2>3. row.phase = "synthesis" /\ row' = row /\ row.status = "active"
    BY <1>5, <2>1 DEF AddMessage, Converge, InSynthesis, Submits, Live
  <2>4. VerdictTurn([kind |-> "approve", by |-> a])
    BY <2>1, <2>3 DEF VerdictTurn
  <2>5. QED
    BY <2>1, <2>2, <2>3, <2>4 DEF AddMessage
<1>6. CASE ReportStuck(w) \/ SweepNarrate(w)
  <2>1. [kind |-> "system", by |-> NoOne] \in Message
    BY MessagesTyped
  <2>2. CASE ReportStuck(w)
    BY <1>a, <2>1, <2>2 DEF ReportStuck, AddMessage, SystemTurn, Submits, Live, Row
  <2>3. CASE SweepNarrate(w)
    BY <1>a, <2>1, <2>3 DEF SweepNarrate, AddMessage, SystemTurn, Live
  <2>4. QED
    BY <1>6, <2>2, <2>3
<1>7. CASE Reassign(w)
  <2>1. PICK r \in Reviewers :
          AddMessage("system", NoOne,
                     [row EXCEPT !.reviewer = r, !.awaiting = FALSE, !.status = "active",
                                 !.phase = IF Live THEN Rewound(row) ELSE Reopened])
    BY <1>7 DEF Reassign
  <2>2. [kind |-> "system", by |-> NoOne] \in Message
    BY MessagesTyped
  <2>3. /\ row'.reviewer = r /\ row'.status = "active"
        /\ row'.phase = IF Live THEN Rewound(row) ELSE Reopened
    BY <1>a, <2>1 DEF AddMessage, Row
  <2>4. row'.phase = "synthesis" => row.phase = "synthesis" /\ row.reviewer # Paused
    BY <1>7, <2>3 DEF Reassign, Reassignable, Rewound, Reopened
  <2>5. SystemTurn([kind |-> "system", by |-> NoOne])
    BY <2>3, <2>4 DEF SystemTurn
  <2>6. QED
    BY <2>1, <2>2, <2>3, <2>5 DEF AddMessage
<1>8. QED
  BY <1>1, <1>2, <1>3, <1>4, <1>5, <1>6, <1>7 DEF Speaks

LEMMA MovesEffect ==
    ASSUME TypeOK, NEW w \in Workers, Moves(w)
    PROVE  /\ log' = log /\ decision' = decision
           /\ row'.status = row.status /\ row'.phase = row.phase
           /\ \/ row'.reviewer = row.reviewer
              \/ row.phase = "antithesis" /\ row'.reviewer \in Reviewers
<1>a. row \in Row
  BY DEF TypeOK
<1>1. CASE RaiseHand(w) \/ SweepFlag(w)
  BY <1>a, <1>1 DEF RaiseHand, SweepFlag, Row
<1>2. CASE SweepReassign(w)
  BY <1>a, <1>2 DEF SweepReassign, SweepAdmits, Matches, Row
<1>3. QED
  BY <1>1, <1>2 DEF Moves

LEMMA CloseEffect ==
    ASSUME TypeOK, NEW outcome, Close(outcome)
    PROVE  /\ row'.status = (IF outcome = "resume" THEN "resolved" ELSE "failed")
           /\ row'.phase # "synthesis" /\ row'.awaiting = FALSE
           /\ row'.reviewer = row.reviewer
           /\ decision' = outcome /\ log' = log
BY DEF TypeOK, Row, Close

LEMMA EndsEffect ==
    ASSUME TypeOK, NEW w \in Workers, Ends(w)
    PROVE  /\ row'.phase # "synthesis" /\ row'.awaiting = FALSE
           /\ row'.reviewer = row.reviewer /\ log' = log
           /\ \/ /\ Deciding(w) /\ Admits(job[w]) /\ decision' = job[w].outcome
                 /\ row'.status = (IF job[w].outcome = "resume" THEN "resolved" ELSE "failed")
              \/ /\ SweepRejection(w) /\ decision' = "rejection_stands"
                 /\ row'.status = "failed"
              \/ decision' = "failure" /\ row'.status = "failed"
<1>1. CASE CommitHere(w) \/ CommitClaimed(w)
  <2>1. Close(job[w].outcome) /\ Deciding(w) /\ Admits(job[w])
    BY <1>1 DEF CommitHere, CommitClaimed, Deciding
  <2>2. QED
    BY <2>1, CloseEffect
<1>2. CASE SweepRejection(w)
  <2>1. Close("rejection_stands")
    BY <1>2 DEF SweepRejection
  <2>2. /\ row'.phase # "synthesis" /\ row'.awaiting = FALSE
        /\ row'.reviewer = row.reviewer /\ log' = log /\ decision' = "rejection_stands"
    BY <2>1, CloseEffect
  <2>3. row'.status = "failed"
    BY <2>1 DEF TypeOK, Row, Close
  <2>4. QED
    BY <1>2, <2>2, <2>3
<1>3. CASE SweepReap(w)
  <2>1. Close("failure")
    BY <1>3 DEF SweepReap
  <2>2. /\ row'.phase # "synthesis" /\ row'.awaiting = FALSE
        /\ row'.reviewer = row.reviewer /\ log' = log /\ decision' = "failure"
    BY <2>1, CloseEffect
  <2>3. row'.status = "failed"
    BY <2>1 DEF TypeOK, Row, Close
  <2>4. QED
    BY <2>2, <2>3
<1>4. QED
  BY <1>1, <1>2, <1>3 DEF Ends

-----------------------------------------------------------------------------
(* The transcript grows.                                                    *)

Independent(m) == IsVerdict(m) /\ m.by # Paused

LEMMA NoOneIsNotPaused == NoOne # Paused /\ Paused \notin Reviewers
BY AgentsAssumption DEF Agents

LEMMA IndependentVerdicts ==
    ASSUME NEW t, NEW r, r # Paused
    PROVE  Verdicts(t, r) = {i \in DOMAIN t : Independent(t[i])}
BY DEF Verdicts, Independent, IsVerdict

LEMMA VerdictsGrow ==
    ASSUME NEW m \in Message, log \in Seq(Message), log' = Append(log, m)
    PROVE  /\ Verdicts(log, NoOne) \subseteq 1 .. Len(log)
           /\ Verdicts(log', NoOne) \subseteq 1 .. Len(log) + 1
           /\ \A i \in 1 .. Len(log) : i \in Verdicts(log', NoOne) <=> i \in Verdicts(log, NoOne)
           /\ Len(log) + 1 \in Verdicts(log', NoOne) <=> Independent(m)
<1>1. /\ Verdicts(log, NoOne) = {i \in DOMAIN log : Independent(log[i])}
      /\ Verdicts(log', NoOne) = {i \in DOMAIN log' : Independent(log'[i])}
  BY NoOneIsNotPaused, IndependentVerdicts
<1>2. /\ DOMAIN log = 1 .. Len(log) /\ DOMAIN log' = 1 .. Len(log) + 1 /\ Len(log) \in Nat
      /\ \A i \in 1 .. Len(log) : log'[i] = log[i]
      /\ log'[Len(log) + 1] = m
  BY AppendFacts
<1>3. QED
  BY <1>1, <1>2

LEMMA ReviewStep == TypeOK /\ Review /\ [Next]_vars => Review'
<1> SUFFICES ASSUME TypeOK, Review, [Next]_vars PROVE Review'
  OBVIOUS
<1>a. SynthesisReviewed /\ SelfReviewAlone /\ LastVerdictKnown
  BY DEF Review
<1>b. log \in Seq(Message) /\ NoOne # Paused /\ Paused \notin Reviewers /\ NoOne \notin Reviewers
  BY NoOneIsNotPaused, AgentsAssumption DEF TypeOK, Agents
<1>1. CASE UNCHANGED <<row, log>>
  BY <1>1, <1>a DEF Review, SynthesisReviewed, SelfReviewAlone, LastVerdictKnown, Verdicts, LastVerdict
<1>2. ASSUME NEW w \in Workers, Speaks(w) PROVE Review'
  <2>1. PICK m \in Message :
          /\ log' = Append(log, m)
          /\ ThesisTurn(m) \/ AntithesisTurn(m) \/ VerdictTurn(m) \/ SystemTurn(m)
    BY <1>2, SpeaksEffect
  <2> DEFINE n == Len(log)
  <2>2. /\ DOMAIN log = 1 .. n /\ DOMAIN log' = 1 .. n + 1 /\ n \in Nat
        /\ \A i \in 1 .. n : log'[i] = log[i]
        /\ log'[n + 1] = m
    BY <1>b, <2>1, AppendFacts
  <2>3. SynthesisReviewed'
    <3> SUFFICES ASSUME row'.phase = "synthesis", row'.reviewer # Paused
                 PROVE  /\ row'.reviewer # NoOne
                        /\ \E i \in DOMAIN log' : log'[i].kind = "antithesis" /\ log'[i].by # Paused
      BY DEF SynthesisReviewed
    <3>1. CASE ThesisTurn(m)
      BY <3>1 DEF ThesisTurn
    <3>2. CASE AntithesisTurn(m)
      BY <2>2, <3>2, AgentsAssumption DEF AntithesisTurn
    <3>3. CASE row.phase = "synthesis" /\ row.reviewer # Paused
      <4>1. PICK i \in DOMAIN log : log[i].kind = "antithesis" /\ log[i].by # Paused
        BY <1>a, <3>3 DEF SynthesisReviewed
      <4>2. i \in DOMAIN log' /\ log'[i] = log[i]
        BY <2>2, <4>1
      <4>3. row'.reviewer # NoOne
        BY <1>a, <1>b, <2>1, <3>3, AgentsAssumption
           DEF SynthesisReviewed, ThesisTurn, AntithesisTurn, VerdictTurn, SystemTurn
      <4>4. QED
        BY <4>1, <4>2, <4>3
    <3>4. QED
      BY <2>1, <3>1, <3>2, <3>3 DEF VerdictTurn, SystemTurn
  <2>4. SelfReviewAlone'
    <3> SUFFICES ASSUME row'.reviewer = Paused, NEW i \in DOMAIN log', IsVerdict(log'[i])
                 PROVE  log'[i].by = Paused
      BY DEF SelfReviewAlone
    <3>1. CASE i \in 1 .. n
      <4>1. row.reviewer = Paused \/ AntithesisTurn(m)
        BY <1>b, <2>1 DEF ThesisTurn, VerdictTurn, SystemTurn
      <4>2. row.reviewer = Paused
        BY <4>1 DEF AntithesisTurn
      <4>3. QED
        BY <1>a, <2>2, <3>1, <4>2 DEF SelfReviewAlone
    <3>2. CASE i = n + 1
      <4>1. VerdictTurn(m)
        BY <2>1, <2>2, <3>2 DEF IsVerdict, ThesisTurn, AntithesisTurn, SystemTurn
      <4>2. QED
        BY <2>2, <3>2, <4>1 DEF VerdictTurn
    <3>3. QED
      BY <2>2, <3>1, <3>2
  <2>5. LastVerdictKnown'
    <3>1. /\ Verdicts(log, NoOne) \subseteq 1 .. n
          /\ Verdicts(log', NoOne) \subseteq 1 .. n + 1
          /\ \A i \in 1 .. n : i \in Verdicts(log', NoOne) <=> i \in Verdicts(log, NoOne)
          /\ n + 1 \in Verdicts(log', NoOne) <=> Independent(m)
      BY <1>b, <2>1, VerdictsGrow
    <3>2. CASE Independent(m)
      <4>1. n + 1 \in DOMAIN log' /\ LastVerdict(log', NoOne, n + 1)
        BY <2>2, <3>1, <3>2 DEF LastVerdict
      <4>2. QED
        BY <4>1 DEF LastVerdictKnown
    <3>3. CASE ~Independent(m)
      <4> SUFFICES ASSUME Verdicts(log', NoOne) # {}
                   PROVE  \E i \in DOMAIN log' : LastVerdict(log', NoOne, i)
        BY DEF LastVerdictKnown
      <4>1. Verdicts(log', NoOne) = Verdicts(log, NoOne)
        <5>1. 1 .. n + 1 = 1 .. n \cup {n + 1}
          BY <2>2
        <5>2. Verdicts(log', NoOne) \subseteq 1 .. n
          BY <3>1, <3>3, <5>1
        <5>3. QED
          BY <3>1, <5>2
      <4>2. PICK i \in DOMAIN log : LastVerdict(log, NoOne, i)
        BY <1>a, <4>1 DEF LastVerdictKnown
      <4>3. i \in DOMAIN log' /\ LastVerdict(log', NoOne, i)
        BY <2>2, <4>1, <4>2 DEF LastVerdict
      <4>4. QED
        BY <4>3
    <3>4. QED
      BY <3>2, <3>3
  <2>6. QED
    BY <2>3, <2>4, <2>5 DEF Review
<1>3. ASSUME NEW w \in Workers, Moves(w) PROVE Review'
  <2>1. /\ log' = log /\ row'.phase = row.phase
        /\ \/ row'.reviewer = row.reviewer
           \/ row.phase = "antithesis" /\ row'.reviewer \in Reviewers
    BY <1>3, MovesEffect
  <2>2. SynthesisReviewed'
    BY <1>a, <2>1 DEF SynthesisReviewed
  <2>3. SelfReviewAlone'
    BY <1>a, <1>b, <2>1 DEF SelfReviewAlone
  <2>4. LastVerdictKnown'
    BY <1>a, <2>1 DEF LastVerdictKnown, Verdicts, LastVerdict
  <2>5. QED
    BY <2>2, <2>3, <2>4 DEF Review
<1>4. ASSUME NEW w \in Workers, Ends(w) PROVE Review'
  <2>1. log' = log /\ row'.phase # "synthesis" /\ row'.reviewer = row.reviewer
    BY <1>4, EndsEffect
  <2>2. QED
    BY <1>a, <2>1
       DEF Review, SynthesisReviewed, SelfReviewAlone, LastVerdictKnown, Verdicts, LastVerdict
<1>5. QED
  BY <1>1, <1>2, <1>3, <1>4, StepKinds, IdlesKeepsSession, OthersKeepSession

Answer == [kind |-> "approve", by |-> Paused]

LEMMA OneAnswerStep == TypeOK /\ Review /\ OneAnswerPerRejection /\ [Next]_vars => OneAnswerPerRejection'
<1> SUFFICES ASSUME TypeOK, Review, OneAnswerPerRejection, [Next]_vars
             PROVE  OneAnswerPerRejection'
  OBVIOUS
<1>b. log \in Seq(Message) /\ NoOne # Paused
  BY NoOneIsNotPaused DEF TypeOK
<1>1. CASE log' = log
  BY <1>1 DEF OneAnswerPerRejection, Verdicts
<1>2. ASSUME NEW w \in Workers, Speaks(w) PROVE OneAnswerPerRejection'
  <2>1. PICK m \in Message :
          /\ log' = Append(log, m)
          /\ ThesisTurn(m) \/ AntithesisTurn(m) \/ VerdictTurn(m) \/ SystemTurn(m)
    BY <1>2, SpeaksEffect
  <2> DEFINE n == Len(log)
  <2>2. /\ DOMAIN log = 1 .. n /\ DOMAIN log' = 1 .. n + 1 /\ n \in Nat
        /\ \A i \in 1 .. n : log'[i] = log[i]
        /\ log'[n + 1] = m
    BY <1>b, <2>1, AppendFacts
  <2>3. /\ Verdicts(log, NoOne) \subseteq 1 .. n
        /\ \A i \in 1 .. n : i \in Verdicts(log', NoOne) <=> i \in Verdicts(log, NoOne)
    BY <1>b, <2>1, VerdictsGrow
  <2> HIDE DEF n
  <2> SUFFICES ASSUME NEW i \in DOMAIN log', NEW k \in DOMAIN log', NEW l \in DOMAIN log',
                      i < k, k < l,
                      i \in Verdicts(log', NoOne), log'[i].kind = "reject",
                      log'[k] = Answer, log'[l] = Answer
               PROVE  \E j \in i + 1 .. l - 1 : j \in Verdicts(log', NoOne)
    BY DEF OneAnswerPerRejection, Answer
  <2>4. /\ i \in 1 .. n /\ k \in 1 .. n
        /\ i \in Verdicts(log, NoOne) /\ log[i].kind = "reject" /\ log[k] = Answer
    BY <2>2, <2>3
  <2>5. CASE l \in 1 .. n
    <3>1. \E j \in i + 1 .. l - 1 : j \in Verdicts(log, NoOne)
      BY <2>2, <2>4, <2>5 DEF OneAnswerPerRejection, Answer
    <3>2. QED
      BY <2>2, <2>3, <2>4, <2>5, <3>1
  <2>6. CASE l = n + 1
    <3> SUFFICES ASSUME ~ \E j \in i + 1 .. n : j \in Verdicts(log, NoOne)
                 PROVE  FALSE
      <4>1. i + 1 .. l - 1 = i + 1 .. n
        BY <2>2, <2>4, <2>6
      <4>2. \A j \in i + 1 .. n : j \in 1 .. n
        BY <2>2, <2>4
      <4>3. QED
        BY <2>3, <4>1, <4>2
    <3>1. \A j \in Verdicts(log, NoOne) : j <= i
      BY <2>2, <2>3, <2>4
    <3>2. LastVerdict(log, NoOne, i)
      BY <2>4, <3>1 DEF LastVerdict
    <3>3. row.reviewer # Paused
      <4>1. IsVerdict(log[i]) /\ log[i].by # Paused
        BY <1>b, <2>4 DEF Verdicts, IsVerdict
      <4>2. QED
        BY <2>2, <2>4, <4>1 DEF Review, SelfReviewAlone
    <3>4. Verdicts(log, row.reviewer) = Verdicts(log, NoOne)
      BY <1>b, <3>3, IndependentVerdicts
    <3>5. ObjectionStands(log, row.reviewer)
      BY <2>2, <2>4, <3>2, <3>4 DEF ObjectionStands, LastVerdict
    <3>6. AlreadyAnswered(log, row.reviewer)
      <4>1. /\ i \in DOMAIN log /\ k \in DOMAIN log
            /\ i < k /\ log[k] = [kind |-> "approve", by |-> Paused]
            /\ i \in Verdicts(log, row.reviewer) /\ log[i].kind = "reject"
            /\ \A j \in Verdicts(log, row.reviewer) : log[j].kind = "reject" => j <= i
        BY <2>2, <2>4, <3>1, <3>4 DEF Answer
      <4>2. QED
        BY <4>1 DEF AlreadyAnswered
    <3>7. m.kind = "approve" /\ m.by = Paused
      BY <2>2, <2>6 DEF Answer
    <3>8. VerdictTurn(m)
      BY <2>1, <3>7 DEF ThesisTurn, AntithesisTurn, SystemTurn
    <3>9. QED
      BY <3>5, <3>6, <3>7, <3>8 DEF VerdictTurn
  <2>7. QED
    BY <2>2, <2>5, <2>6
<1>3. ASSUME NEW w \in Workers, Moves(w) \/ Ends(w) PROVE log' = log
  BY <1>3, MovesEffect, EndsEffect
<1>4. QED
  BY <1>1, <1>2, <1>3, StepKinds, IdlesKeepsSession, OthersKeepSession

\* The decisions in flight.
LEMMA DecidedStep ==
    TypeOK /\ Review /\ DecidedOnApproval /\ [Next]_vars => DecidedOnApproval'
<1> SUFFICES ASSUME TypeOK, Review, DecidedOnApproval, [Next]_vars
             PROVE  DecidedOnApproval'
  OBVIOUS
<1>a. /\ log \in Seq(Message) /\ Len(log) \in Nat /\ job \in [Workers -> Job]
      /\ unclaimed \subseteq Workers /\ NoOne # Paused
  BY NoOneIsNotPaused DEF TypeOK
<1> DEFINE Grows == /\ Len(log') \in Nat /\ Len(log) <= Len(log')
                    /\ \A i \in 1 .. Len(log) : log'[i] = log[i]
           Sound(v) == Deciding(v) =>
                         /\ job[v].outcome \in {"resume", "failure"}
                         /\ job[v].outcome = "resume" =>
                              /\ job[v].rev \in 1 .. Len(log)
                              /\ log[job[v].rev].kind = "approve"
                              /\ log[job[v].rev].by \in {Paused, job[v].seen.reviewer}
                              /\ job[v].seen.reviewer # Paused => Approved(job[v].rev)
<1>b. Grows
  <2>1. CASE log' = log
    BY <1>a, <2>1
  <2>2. ASSUME NEW w \in Workers, Speaks(w) PROVE Grows
    <3>1. PICK m \in Message : log' = Append(log, m)
      BY <2>2, SpeaksEffect
    <3>2. QED
      BY <1>a, <3>1, AppendFacts
  <2>3. ASSUME NEW w \in Workers, Moves(w) \/ Ends(w) PROVE log' = log
    BY <2>3, MovesEffect, EndsEffect
  <2>4. QED
    BY <2>1, <2>2, <2>3, StepKinds, IdlesKeepsSession, OthersKeepSession
<1>c. \A v \in Workers : Sound(v)
  BY DEF DecidedOnApproval
<1>d. ASSUME NEW v \in Workers, job'[v].step \in {"deciding", "claimed"} => Deciding(v),
             Deciding(v) => /\ job'[v].outcome = job[v].outcome
                            /\ job'[v].rev = job[v].rev /\ job'[v].seen = job[v].seen
      PROVE  Sound(v)'
  <2> SUFFICES ASSUME Deciding(v)' PROVE Sound(v)'
    OBVIOUS
  <2>1. Deciding(v) /\ Sound(v)
    BY <1>c, <1>d DEF Deciding
  <2>2. /\ job'[v].outcome = job[v].outcome
        /\ job'[v].rev = job[v].rev /\ job'[v].seen = job[v].seen
    BY <1>d, <2>1
  <2>3. ASSUME job[v].outcome = "resume"
        PROVE  /\ job[v].rev \in 1 .. Len(log')
               /\ log'[job[v].rev].kind = "approve"
               /\ log'[job[v].rev].by \in {Paused, job[v].seen.reviewer}
               /\ job[v].seen.reviewer # Paused => Approved(job[v].rev)'
    <3>1. /\ job[v].rev \in 1 .. Len(log)
          /\ log[job[v].rev].kind = "approve"
          /\ log[job[v].rev].by \in {Paused, job[v].seen.reviewer}
          /\ job[v].seen.reviewer # Paused => Approved(job[v].rev)
      BY <2>1, <2>3
    <3>2. log'[job[v].rev] = log[job[v].rev] /\ job[v].rev \in 1 .. Len(log')
      BY <1>a, <1>b, <3>1
    <3>3. \A j \in 1 .. job[v].rev : j \in 1 .. Len(log) /\ log'[j] = log[j]
      BY <1>a, <1>b, <3>1
    <3>4. Approved(job[v].rev) => Approved(job[v].rev)'
      BY <2>2, <3>3 DEF Approved
    <3>5. QED
      BY <3>1, <3>2, <3>4
  <2>4. QED
    BY <2>1, <2>2, <2>3 DEF Approved
<1>e. ASSUME NEW w \in Workers, Release(w) PROVE \A v \in Workers : Sound(v)'
  <2>1. job'[w].step = "free" /\ \A v \in Workers : v # w => job'[v] = job[v]
    BY <1>a, <1>e, ReleaseFacts
  <2>2. Sound(w)'
    BY <2>1 DEF Deciding
  <2>3. ASSUME NEW v \in Workers, v # w PROVE Sound(v)'
    BY <1>d, <2>1, <2>3 DEF Deciding
  <2>4. QED
    BY <2>2, <2>3
<1>f. ASSUME NEW w \in Workers, NEW j \in Job, Becomes(w, j), Sound(w)'
      PROVE  \A v \in Workers : Sound(v)'
  <2>1. \A v \in Workers : v # w => job'[v] = job[v]
    BY <1>a, <1>f, BecomesFacts
  <2>2. ASSUME NEW v \in Workers, v # w PROVE Sound(v)'
    BY <1>d, <2>1, <2>2 DEF Deciding
  <2>3. QED
    BY <1>f, <2>2
<1>g. ASSUME NEW w \in Workers, NEW j \in Job, Becomes(w, j),
             j.step \notin {"deciding", "claimed"}
      PROVE  \A v \in Workers : Sound(v)'
  <2>1. job'[w] = j
    BY <1>a, <1>g, BecomesFacts
  <2>2. Sound(w)'
    BY <1>g, <2>1 DEF Deciding
  <2>3. QED
    BY <1>f, <1>g, <2>2
<1> SUFFICES \A v \in Workers : Sound(v)'
  BY DEF DecidedOnApproval
<1>1. ASSUME NEW w \in Workers, Release(w) PROVE \A v \in Workers : Sound(v)'
  BY <1>e, <1>1
<1>2. ASSUME NEW w \in Workers, Idles(w) PROVE \A v \in Workers : Sound(v)'
  <2>r. Read(row) \in Seen /\ Len(log) \in 0 .. MaxLog /\ idle \in 0 .. 2
    BY <1>a, RowFields, BoundsAssumption DEF TypeOK
  <2>1. CASE Load(w)
    <3> DEFINE j == [Free EXCEPT !.step = "loaded", !.seen = Read(row), !.rev = Len(log)]
    <3>1. j \in Job
      BY <2>r, JobMoves DEF Steps
    <3>2. j.step = "loaded" /\ Becomes(w, j)
      BY <2>1 DEF Load, Free
    <3> HIDE DEF j
    <3>3. QED
      BY <1>g, <3>1, <3>2
  <2>2. CASE DecideFailure(w)
    <3> DEFINE j == [job[w] EXCEPT !.step = "deciding", !.outcome = "failure"]
    <3>1. j \in Job /\ job[w] \in Job
      BY JobMoves DEF Steps, Decisions
    <3>2. j.outcome = "failure"
      BY <3>1 DEF Job
    <3>3. Becomes(w, j)
      BY <2>2 DEF DecideFailure
    <3> HIDE DEF j
    <3>4. job'[w] = j
      BY <1>a, <3>1, <3>3, BecomesFacts
    <3>5. Sound(w)'
      BY <3>2, <3>4
    <3>6. QED
      BY <1>f, <3>1, <3>3, <3>5
  <2>3. CASE Claim(w)
    <3> DEFINE j == [job[w] EXCEPT !.step = "claimed"]
    <3>1. j \in Job /\ job[w] \in Job
      BY JobMoves DEF Steps
    <3>2. j.outcome = job[w].outcome /\ j.rev = job[w].rev /\ j.seen = job[w].seen
      BY <3>1 DEF Job
    <3>3. Becomes(w, j) /\ Deciding(w)
      BY <2>3 DEF Claim, Deciding
    <3> HIDE DEF j
    <3>4. job'[w] = j
      BY <1>a, <3>1, <3>3, BecomesFacts
    <3>5. Sound(w)'
      BY <1>d, <3>2, <3>3, <3>4
    <3>6. QED
      BY <1>f, <3>1, <3>3, <3>5
  <2>4. CASE SweepRead(w)
    <3> DEFINE j == [Free EXCEPT !.step = "swept", !.seen = Read(row), !.rev = Len(log),
                                 !.age = idle]
    <3>1. j \in Job
      BY <2>r, JobMoves DEF Steps
    <3>2. j.step = "swept" /\ Becomes(w, j)
      BY <2>4 DEF SweepRead, Free
    <3> HIDE DEF j
    <3>3. QED
      BY <1>g, <3>1, <3>2
  <2>5. CASE ClaimTooLate(w) \/ CommitRefused(w) \/ GiveUp(w)
    BY <1>1, <2>5 DEF ClaimTooLate, CommitRefused, GiveUp
  <2>6. QED
    BY <1>2, <2>1, <2>2, <2>3, <2>4, <2>5 DEF Idles
<1>3. ASSUME NEW w \in Workers, Converge(w) PROVE \A v \in Workers : Sound(v)'
  <2>0. PICK n \in Nat : n = Len(log)
    BY <1>a
  <2>1. PICK a \in {Paused, row.reviewer} \ {NoOne}, outcome \in {"resume", "failure"} :
          /\ a = Paused => /\ ~VerdictPending(log, row.reviewer)
                           /\ ~ObjectionStands(log, row.reviewer)
          /\ AddMessage("approve", a, row)
          /\ Becomes(w, [job[w] EXCEPT !.step = "deciding", !.rev = n + 1, !.outcome = outcome])
    BY <1>3, <2>0 DEF Converge
  <2> DEFINE m == [kind |-> "approve", by |-> a]
             j == [job[w] EXCEPT !.step = "deciding", !.rev = n + 1, !.outcome = outcome]
  <2>2. m \in Message
    BY <2>1, MessagesTyped, RowFields DEF TypeOK, Agents
  <2>3. log' = Append(log, m) /\ n < MaxLog
    BY <2>0, <2>1 DEF AddMessage
  <2>4. /\ DOMAIN log = 1 .. n /\ Len(log') = n + 1 /\ n \in Nat
        /\ \A i \in 1 .. n : log'[i] = log[i]
        /\ log'[n + 1] = m
    BY <1>a, <2>0, <2>2, <2>3, AppendFacts
  <2>5. j \in Job /\ job[w] \in Job
    <3>1. n + 1 \in 0 .. MaxLog
      BY <2>3, BoundsAssumption
    <3>2. "deciding" \in Steps /\ outcome \in Decisions
      BY DEF Steps, Decisions
    <3>3. QED
      BY <3>1, <3>2, JobMoves
  <2>6. j.outcome = outcome /\ j.rev = n + 1 /\ j.seen = job[w].seen
    BY <2>5 DEF Job
  <2>7. /\ job[w].seen.reviewer = row.reviewer /\ row.phase = "synthesis"
    BY <1>3 DEF Converge, InSynthesis, Submits, Matches
  <2>8. m.kind = "approve" /\ m.by = a
    OBVIOUS
  <2>9. Becomes(w, j)
    BY <2>1
  <2> HIDE DEF m, j
  <2>10. job'[w] = j
    BY <1>a, <2>5, <2>9, BecomesFacts
  <2>11. ASSUME row.reviewer # Paused PROVE Approved(n + 1)'
    <3>1. CASE a # Paused
      <4>1. n + 1 \in 1 .. n + 1 /\ \A i \in 1 .. n + 1 : i <= n + 1
        BY <2>4
      <4>2. QED
        BY <2>4, <2>8, <3>1, <4>1 DEF Approved
    <3>2. CASE a = Paused
      <4>1. /\ row.reviewer # NoOne
            /\ \E i \in DOMAIN log : log[i].kind = "antithesis" /\ log[i].by # Paused
        BY <2>7, <2>11 DEF Review, SynthesisReviewed
      <4>2. Verdicts(log, NoOne) # {}
        BY <2>1, <2>11, <3>2, <4>1 DEF VerdictPending
      <4>3. PICK i \in DOMAIN log : LastVerdict(log, NoOne, i)
        BY <4>2 DEF Review, LastVerdictKnown
      <4>4. Verdicts(log, row.reviewer) = Verdicts(log, NoOne)
        BY <1>a, <2>11, IndependentVerdicts
      <4>5. LastVerdict(log, row.reviewer, i)
        BY <4>3, <4>4 DEF LastVerdict
      <4>6. log[i].kind # "reject"
        BY <2>1, <3>2, <4>5 DEF ObjectionStands
      <4>7. /\ i \in 1 .. n /\ log[i].kind = "approve" /\ log[i].by # Paused
            /\ \A k \in 1 .. n : Independent(log[k]) => k <= i
        BY <1>a, <2>4, <4>3, <4>6, IndependentVerdicts
           DEF LastVerdict, Independent, IsVerdict
      <4>8. /\ i \in 1 .. n + 1
            /\ log'[i].kind = "approve" /\ log'[i].by # Paused
        BY <2>4, <4>7
      <4>9. ASSUME NEW k \in 1 .. n + 1, IsVerdict(log'[k]), log'[k].by # Paused
            PROVE  k <= i
        <5>1. k # n + 1
          BY <2>4, <2>8, <3>2, <4>9
        <5>2. k \in 1 .. n /\ log'[k] = log[k]
          BY <2>4, <5>1
        <5>3. QED
          BY <4>7, <4>9, <5>2 DEF Independent
      <4>10. QED
        BY <4>8, <4>9 DEF Approved
    <3>3. QED
      BY <3>1, <3>2
  <2>12. n + 1 \in 1 .. Len(log')
    BY <2>4
  <2>13. job'[w].rev = n + 1 /\ job'[w].seen.reviewer = row.reviewer /\ job'[w].outcome = outcome
    BY <2>6, <2>7, <2>10
  <2>14. /\ log'[job'[w].rev].kind = "approve"
         /\ log'[job'[w].rev].by \in {Paused, job'[w].seen.reviewer}
         /\ job'[w].rev \in 1 .. Len(log')
    BY <2>1, <2>4, <2>8, <2>12, <2>13
  <2>15. ASSUME job'[w].seen.reviewer # Paused
         PROVE  \E i \in 1 .. job'[w].rev :
                  /\ log'[i].kind = "approve" /\ log'[i].by # Paused
                  /\ \A k \in 1 .. job'[w].rev :
                       IsVerdict(log'[k]) /\ log'[k].by # Paused => k <= i
    <3>1. row.reviewer # Paused
      BY <2>13, <2>15
    <3>2. QED
      BY <2>11, <2>13, <3>1 DEF Approved
  <2>16. Sound(w)'
    BY <2>1, <2>13, <2>14, <2>15 DEF Approved
  <2>17. QED
    BY <1>f, <2>5, <2>9, <2>16
<1>4. ASSUME NEW w \in Workers, Speaks(w) PROVE \A v \in Workers : Sound(v)'
  BY <1>1, <1>3, <1>4
     DEF Speaks, Thesis, Antithesis, Reject, AnswerObjection, ReportStuck, Reassign,
         SweepNarrate
<1>5. ASSUME NEW w \in Workers, Moves(w) PROVE \A v \in Workers : Sound(v)'
  <2>1. CASE RaiseHand(w)
    BY <1>1, <2>1 DEF RaiseHand
  <2>2. CASE SweepReassign(w) \/ SweepFlag(w)
    <3> DEFINE j == [job[w] EXCEPT !.step = "narrate", !.seen = Read(row')]
    <3>1. Becomes(w, j)
      BY <2>2 DEF SweepReassign, SweepFlag
    <3>2. row' \in Row
      BY <2>2, TypeStep DEF TypeOK
    <3>3. j \in Job /\ job[w] \in Job
      BY <3>2, RowFields, JobMoves DEF Steps
    <3>4. j.step = "narrate"
      BY <3>3 DEF Job
    <3> HIDE DEF j
    <3>5. QED
      BY <1>g, <3>1, <3>3, <3>4
  <2>3. QED
    BY <1>5, <2>1, <2>2 DEF Moves
<1>6. ASSUME NEW w \in Workers, Ends(w) PROVE \A v \in Workers : Sound(v)'
  BY <1>1, <1>6 DEF Ends, CommitHere, CommitClaimed, SweepRejection, SweepReap
<1>7. CASE Reclaim \/ Tick \/ UNCHANGED vars
  <2>1. job' = job
    BY <1>7, OthersKeepSession
  <2>2. QED
    BY <1>d, <2>1 DEF Deciding
<1>8. QED
  BY <1>2, <1>4, <1>5, <1>6, <1>7, StepKinds

-----------------------------------------------------------------------------
(* The ends of a session.                                                   *)

LEMMA ClosedQuietlyStep ==
    TypeOK /\ DecidedOnApproval /\ ClosedQuietly /\ [Next]_vars => ClosedQuietly'
<1> SUFFICES ASSUME TypeOK, DecidedOnApproval, ClosedQuietly, [Next]_vars,
                    decision' = "rejection_stands"
             PROVE  row'.status = "failed" /\ ~row'.awaiting
  BY DEF ClosedQuietly
<1>1. CASE decision = "rejection_stands"
  <2>1. row' = row
    BY <1>1, FinalStep DEF ClosedQuietly
  <2>2. QED
    BY <1>1, <2>1 DEF ClosedQuietly
<1>2. ASSUME NEW w \in Workers, Ends(w) PROVE row'.status = "failed" /\ ~row'.awaiting
  <2>1. row'.awaiting = FALSE
    BY <1>2, EndsEffect
  <2>2. Deciding(w) => job[w].outcome # "rejection_stands"
    BY DEF DecidedOnApproval
  <2>3. row'.status = "failed"
    BY <1>2, <2>2, EndsEffect
  <2>4. QED
    BY <2>1, <2>3
<1>3. CASE decision' = decision
  BY <1>1, <1>3
<1>4. QED
  BY <1>2, <1>3, StepKinds, IdlesKeepsSession, OthersKeepSession, SpeaksEffect, MovesEffect

LEMMA ResolvedStep ==
    TypeOK /\ DecidedOnApproval /\ ResolvedIsAuthorised /\ [Next]_vars => ResolvedIsAuthorised'
<1> SUFFICES ASSUME TypeOK, DecidedOnApproval, ResolvedIsAuthorised, [Next]_vars,
                    row'.status = "resolved"
             PROVE  ResolvedIsAuthorised'
  BY DEF ResolvedIsAuthorised
<1>1. CASE row.status = "resolved"
  <2>1. row' = row /\ log' = log
    BY <1>1, FinalStep
  <2>2. QED
    BY <2>1 DEF ResolvedIsAuthorised, LastVerdict, Verdicts
<1>2. CASE row.status # "resolved"
  <2>1. PICK w \in Workers : Ends(w)
    BY <1>2, StepKinds, IdlesKeepsSession, OthersKeepSession, SpeaksEffect, MovesEffect
  <2>2. /\ Deciding(w) /\ Admits(job[w]) /\ job[w].outcome = "resume"
        /\ log' = log /\ row'.reviewer = row.reviewer
    BY <2>1, EndsEffect
  <2> DEFINE n == Len(log)
  <2>3. /\ job[w].rev = n /\ job[w].seen.reviewer = row.reviewer
        /\ Authorises(row.reviewer)
    BY <2>2 DEF Admits, Matches
  <2>4. /\ n \in 1 .. n /\ log[n].kind = "approve"
        /\ log[n].by \in {Paused, row.reviewer}
        /\ row.reviewer # Paused => Approved(n)
    BY <2>2, <2>3 DEF DecidedOnApproval
  <2>5. log \in Seq(Message) /\ DOMAIN log = 1 .. n
    BY DEF TypeOK
  <2>6. ASSUME row.reviewer # Paused
        PROVE  \E i \in DOMAIN log : LastVerdict(log, NoOne, i) /\ log[i].kind = "approve"
    <3>1. PICK i \in 1 .. n :
            /\ log[i].kind = "approve" /\ log[i].by # Paused
            /\ \A k \in 1 .. n : IsVerdict(log[k]) /\ log[k].by # Paused => k <= i
      BY <2>4, <2>6 DEF Approved
    <3>2. Verdicts(log, NoOne) = {k \in DOMAIN log : Independent(log[k])}
      BY NoOneIsNotPaused, IndependentVerdicts
    <3>3. i \in Verdicts(log, NoOne)
      BY <2>5, <3>1, <3>2 DEF Independent, IsVerdict
    <3>4. \A k \in Verdicts(log, NoOne) : k <= i
      BY <2>5, <3>1, <3>2 DEF Independent
    <3>5. QED
      BY <2>5, <3>1, <3>3, <3>4 DEF LastVerdict
  <2>7. log # <<>>
    BY <2>4
  <2>8. ResolvedIsAuthorised
    BY <1>2 DEF ResolvedIsAuthorised
  <2>9. /\ Authorises(row'.reviewer)
        /\ log' # <<>> /\ log'[Len(log')].kind = "approve"
        /\ log'[Len(log')].by \in {Paused, row'.reviewer}
        /\ row'.reviewer # Paused =>
             \E i \in DOMAIN log' : LastVerdict(log', NoOne, i) /\ log'[i].kind = "approve"
    BY <2>2, <2>3, <2>4, <2>6, <2>7
  <2>10. QED
    BY <2>9 DEF ResolvedIsAuthorised, Authorises, Recused
<1>3. QED
  BY <1>1, <1>2

LEMMA RejectionStep ==
    TypeOK /\ DecidedOnApproval /\ ClosedQuietly /\ RejectionClosedTruly /\ [Next]_vars
      => RejectionClosedTruly'
<1> SUFFICES ASSUME TypeOK, DecidedOnApproval, ClosedQuietly, RejectionClosedTruly,
                    [Next]_vars, decision' = "rejection_stands"
             PROVE  RejectionClosedTruly'
  BY DEF RejectionClosedTruly
<1>1. CASE decision = "rejection_stands"
  <2>1. row' = row /\ log' = log /\ decision' = decision
    BY <1>1, FinalStep DEF ClosedQuietly
  <2>2. QED
    BY <2>1 DEF RejectionClosedTruly, LastVerdict, Verdicts
<1>2. CASE decision # "rejection_stands"
  <2>1. PICK w \in Workers : Ends(w)
    BY <1>2, StepKinds, IdlesKeepsSession, OthersKeepSession, SpeaksEffect, MovesEffect
  <2>2. Deciding(w) => job[w].outcome # "rejection_stands"
    BY DEF DecidedOnApproval
  <2>3. /\ SweepRejection(w) /\ row'.status = "failed"
        /\ row'.reviewer = row.reviewer /\ log' = log
    BY <2>1, <2>2, EndsEffect
  <2>4. /\ job[w].rev = Len(log) /\ job[w].seen.reviewer = row.reviewer
        /\ HadLastWord(Prefix(job[w].rev), job[w].seen.reviewer)
    BY <2>3 DEF SweepRejection, SweepAdmits, Matches
  <2>5. log \in Seq(Message) /\ Prefix(Len(log)) = log
    BY DEF TypeOK, Prefix
  <2>6. PICK i \in DOMAIN log : /\ LastVerdict(log, NoOne, i)
                                /\ log[i].kind = "reject" /\ log[i].by = row.reviewer
    BY <2>4, <2>5 DEF HadLastWord
  <2>7. log[i] = [kind |-> "reject", by |-> row.reviewer]
    <3>1. log[i] \in Message
      BY <2>5
    <3>2. QED
      BY <2>6, <3>1 DEF Message
  <2>8. /\ row'.status = "failed"
        /\ \E k \in DOMAIN log' : /\ LastVerdict(log', NoOne, k)
                                 /\ log'[k] = [kind |-> "reject", by |-> row'.reviewer]
    BY <2>3, <2>6, <2>7
  <2>9. QED
    BY <2>8 DEF RejectionClosedTruly
<1>3. QED
  BY <1>1, <1>2

LEMMA InitReview == Init => IInv
<1> SUFFICES ASSUME Init PROVE IInv
  OBVIOUS
<1>1. TypeOK
  BY InitType
<1>2. \A w \in Workers : ~Deciding(w)
  BY DEF Init, Deciding, Free
<1>3. NoOne # Paused /\ Paused \notin Reviewers \cup Authors /\ NoOne \notin Authors
  BY AgentsAssumption, NoOneIsNotPaused DEF Agents
<1>4. /\ decision # "rejection_stands" /\ row.status # "resolved"
      /\ \A i \in DOMAIN log : ~IsVerdict(log[i])
      /\ SynthesisReviewed
  <2>1. CASE Opened
    BY <1>3, <2>1 DEF Opened, Fresh, SynthesisReviewed
  <2>2. CASE LeftAsking
    BY <1>3, <2>2 DEF LeftAsking, Fresh, SynthesisReviewed, IsVerdict
  <2>3. CASE LeftRecused
    <3>1. PICK a \in Authors :
            /\ row = [Fresh(a) EXCEPT !.phase = "synthesis", !.round = 1]
            /\ log = <<[kind |-> "thesis", by |-> Paused], [kind |-> "antithesis", by |-> a]>>
      BY <2>3 DEF LeftRecused
    <3>2. /\ DOMAIN log = 1 .. 2
          /\ log[1] = [kind |-> "thesis", by |-> Paused]
          /\ log[2] = [kind |-> "antithesis", by |-> a]
      BY <3>1
    <3>3. \A i \in DOMAIN log : ~IsVerdict(log[i])
      BY <3>2 DEF IsVerdict
    <3>4. row.reviewer = a /\ row.status = "active"
      BY <3>1 DEF Fresh
    <3>5. SynthesisReviewed
      BY <1>3, <3>2, <3>4 DEF SynthesisReviewed
    <3>6. QED
      BY <2>3, <3>3, <3>4, <3>5 DEF LeftRecused
  <2>4. QED
    BY <2>1, <2>2, <2>3 DEF Init
<1>5. Verdicts(log, NoOne) = {}
  BY <1>4 DEF Verdicts, IsVerdict
<1>6. Review
  BY <1>4, <1>5 DEF Review, SelfReviewAlone, LastVerdictKnown
<1>7. QED
  BY <1>1, <1>2, <1>4, <1>5, <1>6
     DEF IInv, DecidedOnApproval, ClosedQuietly, ResolvedIsAuthorised, RejectionClosedTruly,
         OneAnswerPerRejection

\* The inductive invariant: types, what the review has reached, what the
\* decisions in flight rest on, and the properties themselves.
THEOREM DialecticInvariant == Spec => []IInv
<1>1. Init => IInv
  BY InitReview
<1>2. IInv /\ [Next]_vars => IInv'
  BY TypeStep, ReviewStep, DecidedStep, ClosedQuietlyStep, ResolvedStep, RejectionStep,
     OneAnswerStep DEF IInv
<1>3. QED
  BY <1>1, <1>2, PTL DEF Spec

\* A session is resolved on the last word of a reviewer that may give it, for any
\* number of agents, requests, sweeps and rounds.
THEOREM ResolutionIsAuthorised == Spec => []ResolvedIsAuthorised
<1>1. IInv => ResolvedIsAuthorised
  BY DEF IInv
<1>2. QED
  BY <1>1, DialecticInvariant, PTL

\* The sweep closes on a rejection only while that rejection is the last word.
THEOREM RejectionsStand == Spec => []RejectionClosedTruly
<1>1. IInv => RejectionClosedTruly
  BY DEF IInv
<1>2. QED
  BY <1>1, DialecticInvariant, PTL

\* However many requests race, one answer to a rejection is recorded.
THEOREM OneAnswerRecorded == Spec => []OneAnswerPerRejection
<1>1. IInv => OneAnswerPerRejection
  BY DEF IInv
<1>2. QED
  BY <1>1, DialecticInvariant, PTL
=============================================================================
