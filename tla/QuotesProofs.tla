----------------------------- MODULE QuotesProofs -----------------------------
(***************************************************************************)
(* What Quotes guarantees for any drafts, approvals, attempts and faults:   *)
(* no quote has two jobs that send it, one stranded quote costs one fault,  *)
(* and the jobs follow the life cycle of JobLifecycle.                      *)
(*                                                                          *)
(* BaseInv says what a drafting job's execution has written by the time it  *)
(* is at a step, what its auto-send job holds, and that the quotes a person *)
(* may approve are not those that are sent automatically; hence             *)
(* OneSendJobPerQuote.  A stranded quote is not inductive by itself, for    *)
(* the reviewer may decline one and a fault strand another.  Tokens are     *)
(* failed executions of the drafts, and quotes whose request failed.  Each  *)
(* costs a fault when it comes, and every stranded quote is one of them:    *)
(* StrandedInv, and hence StrandedNeedsFault.                               *)
(***************************************************************************)
EXTENDS Quotes, ExecutionProofs

\* The hand-off of a draft that knows neither fields nor service.
Escalate(d) == <<"escalate", d>>

\* The steps of a job of each kind.
StepsOf(k) ==
    CASE k[1] = "draft" -> {"load", "insert", "autoSend", "task", "stage", "event", "report"}
      [] k[1] \in {"auto", "send"} -> {"text", "mark", "followUp", "report"}
      [] OTHER -> {}

\* The row of a job.
JobSound(k) == Sound(job[k]) /\ job[k].at \in StepsOf(k) \cup {"idle"}

\* A quote is in the table, and the draft's execution has done all there was to do for it.
Exists(q) == quote[q] # "absent"

\* The execution has handed its quote on.
Past(d) ==
    job[Draft(d)].at \in {"stage", "event", "report"} \/ job[Draft(d)].state = "done"

\* Each execution inserts one quote, and hands it to the auto-send job or to a person.
DraftSound(d) ==
    LET at == job[Draft(d)].at
        attempts == job[Draft(d)].attempts
    IN /\ \A n \in 1 .. MaxAttempts :
             Exists(<<d, n>>) =>
                 n < attempts \/ (n = attempts /\ at \notin {"load", "insert"})
       /\ at = "autoSend" => autoMax[d] /\ Exists(Own(d))
       /\ at = "task" => ~autoMax[d] /\ Exists(Own(d))
       /\ Past(d) /\ Own(d) \in QuoteIds /\ Exists(Own(d)) =>
             IF autoMax[d] THEN payload[d] # NoQuote ELSE Own(d) \in reviews

\* The auto-send job has a quote of its draft.
PayloadSound(d) ==
    /\ payload[d] # NoQuote =>
          /\ autoMax[d]
          /\ payload[d] \in QuoteIds /\ payload[d][1] = d
          /\ Exists(payload[d])
    /\ payload[d] # NoQuote <=> job[AutoQuote(d)].state # "absent"

\* What a person reviews or approves is no quote that is sent automatically.
QuoteSound(q) ==
    /\ quote[q] = "awaiting_review" => ~autoMax[q[1]]
    /\ job[Send(q)].state # "absent" => Exists(q) /\ ~autoMax[q[1]]

\* Nor is what a request to approve has found.
AskedSound(r) ==
    asked[r].at # "idle" =>
        asked[r].quote \in QuoteIds /\ Exists(asked[r].quote) /\ ~autoMax[asked[r].quote[1]]

\* The part of the invariant that the rest is built on.
BaseInv ==
    /\ TypeOK
    /\ \A k \in Jobs : JobSound(k)
    /\ \A d \in Drafts : DraftSound(d) /\ PayloadSound(d)
    /\ \A q \in QuoteIds : QuoteSound(q)
    /\ \A r \in Approvals : AskedSound(r)
    /\ migrated \/ \A q \in QuoteIds : ~Exists(q)

\* The drafting executions that failed.
FailedExecution(d, n) ==
    LET q == job[Draft(d)]
    IN 1 <= n /\ (n < q.attempts \/ (n = q.attempts /\ q.at = "idle" /\ q.state # "done"))

\* A failed execution strands its quote; or, after the one whose quote the auto-send
\* job has, that of the execution that follows.
DraftTokens ==
    {q \in Drafts \X (1 .. MaxAttempts + 1) :
        \/ payload[q[1]] = NoQuote /\ FailedExecution(q[1], q[2])
        \/ /\ payload[q[1]] # NoQuote
           /\ \/ q[2] < payload[q[1]][2] /\ FailedExecution(q[1], q[2])
              \/ q[2] > payload[q[1]][2] /\ FailedExecution(q[1], q[2] - 1)}

\* A failed request strands the quote that it approved.
RequestTokens ==
    {q \in QuoteIds :
        /\ quote[q] = "approved" /\ ~autoMax[q[1]]
        /\ job[Send(q)].state = "absent"
        /\ \A r \in Approvals : ~(asked[r].quote = q /\ asked[r].at = "enqueue")}

\* The attempts and requests that stranded a quote.
QuoteTokens == DraftTokens \cup RequestTokens

\* Each of them cost a fault, as long as quotes can be inserted at all.
StrandedInv == migrated => IsFiniteSet(QuoteTokens) /\ Cardinality(QuoteTokens) <= faults

\* The inductive invariant.
QuotesInv == BaseInv /\ StrandedInv
-----------------------------------------------------------------------------
(* Keys.                                                                   *)

\* A key is that of a draft, or of one of the jobs that it may lead to.
LEMMA QuoteKeys ==
  /\ \A d \in Drafts : /\ Draft(d) \in Jobs \ SendJobs /\ Draft(d)[1] = "draft"
                       /\ AutoQuote(d) \in SendJobs /\ AutoQuote(d) = <<"auto", d>>
                       /\ Escalate(d) \in Jobs \ SendJobs /\ Escalate(d)[1] = "escalate"
  /\ \A d, e \in Drafts : /\ Draft(d) = Draft(e) => d = e
                          /\ AutoQuote(d) = AutoQuote(e) => d = e
  /\ \A q \in QuoteIds : Send(q) \in SendJobs /\ Send(q)[1] = "send" /\ Send(q)[2] = q
  /\ \A k \in SendJobs :
        \/ \E d \in Drafts : k = AutoQuote(d)
        \/ \E q \in QuoteIds : k = Send(q)
  /\ SendJobs \subseteq Jobs /\ \A k \in SendJobs : k[1] \in {"auto", "send"}
  BY DEF Jobs, SendJobs, Draft, AutoQuote, Escalate, Send

\* A quote is that of a draft's execution.
LEMMA Ids ==
  /\ \A d \in Drafts, n \in 1 .. MaxAttempts : <<d, n>> \in QuoteIds
  /\ \A q \in QuoteIds : q[1] \in Drafts /\ q[2] \in 1 .. MaxAttempts /\ q = <<q[1], q[2]>>
  /\ NoQuote \notin QuoteIds
  BY ExecutionAssumption DEF QuoteIds, NoQuote

\* A handler's steps are steps.
LEMMA StepNames ==
  \A k \in Jobs : StepsOf(k) \subseteq Steps /\ "idle" \notin StepsOf(k)
  BY DEF StepsOf, Steps

-----------------------------------------------------------------------------
(* What a step does to the jobs.                                           *)

\* Row r becomes row s in one move of the job's life cycle.
RowMoves(r, s) ==
    \/ s.state = r.state /\ s.attempts = r.attempts
    \/ r.state = "absent" /\ s.state = "ready" /\ r.attempts = 0 /\ s.attempts = 0
    \/ /\ r.state = "ready" /\ s.state = "running"
       /\ r.attempts < MaxAttempts /\ s.attempts = r.attempts + 1
    \/ r.state = "running" /\ s.state \in {"done", "dead"} /\ s.attempts = r.attempts
    \/ /\ r.state = "running" /\ s.state = "ready"
       /\ r.attempts \in 1 .. MaxAttempts - 1 /\ s.attempts = r.attempts

\* The execution of k takes a step, begins or ends; the job of key i may be new.
Turn(k, i) ==
    /\ job' \in [Jobs -> JobRows(Steps)]
    /\ faults' \in 0 .. MaxFaults /\ faults <= faults'
    /\ JobSound(k)' /\ RowMoves(job[k], job'[k])
    /\ \A j \in Jobs \ {k} :
          \/ job'[j] = job[j]
          \/ j = i /\ job[j].state = "absent" /\ job'[j] = Ready
    /\ job[k].state # "absent" /\ job'[k].state # "absent"

\* It goes on to a step, or falls at the cost of a fault.
Reaches(k, step) ==
    \/ faults' = faults /\ At(job[k], job'[k], step)
    \/ faults' = faults + 1 /\ Fell(job[k], job'[k])

\* The handler of k falls.
LEMMA Falling ==
  ASSUME TypeOK, NEW k \in Jobs, JobSound(k), job[k].at # "idle",
         job' \in [Jobs -> JobRows(Steps)], Fell(job[k], job'[k])
  PROVE  JobSound(k)' /\ RowMoves(job[k], job'[k])
         /\ job[k].state # "absent" /\ job'[k].state # "absent"
  <1>1. job[k] \in JobRows(Steps) /\ job'[k] \in JobRows(Steps) /\ Sound(job[k])
    BY DEF TypeOK, JobSound
  <1>2. Sound(job'[k])
    BY <1>1, SoundRows
  <1>3. job[k].state = "running" /\ job[k].attempts \in 1 .. MaxAttempts
    BY <1>1, ExecutionAssumption DEF Sound, JobRows
  <1> QED BY <1>2, <1>3, ExecutionAssumption DEF JobSound, RowMoves, Fell

\* A handler's call was made; it may have enqueued the job of another key.
LEMMA Calling ==
  ASSUME TypeOK, NEW k \in Jobs, JobSound(k), job[k].at # "idle",
         NEW i \in Jobs, NEW q, q = job \/ (i # k /\ q = Enqueued(job, i)),
         NEW step \in StepsOf(k), GoesOnWith(q, k, step)
  PROVE  /\ Turn(k, i) /\ Reaches(k, step)
         /\ q = Enqueued(job, i) => job'[i].state # "absent"
  <1>0. job \in [Jobs -> JobRows(Steps)] /\ faults \in 0 .. MaxFaults /\ step \in Steps
    BY StepNames DEF TypeOK
  <1>1. /\ q \in [Jobs -> JobRows(Steps)]
        /\ \A j \in Jobs : j # i \/ job[j].state # "absent" => q[j] = job[j]
        /\ q[i] = job[i] \/ (job[i].state = "absent" /\ q[i] = Ready)
        /\ q = Enqueued(job, i) => q[i].state # "absent"
    BY <1>0, Enqueuing
  <1>2. /\ job' \in [Jobs -> JobRows(Steps)] /\ faults' \in 0 .. MaxFaults
        /\ OnlyOf(q, k)
        /\ \/ faults' = faults /\ At(q[k], job'[k], step)
           \/ faults' = faults + 1 /\ Fell(q[k], job'[k])
    BY <1>0, <1>1, GoingOnWith
  <1>3. q[k] = job[k] /\ Reaches(k, step)
    BY <1>1, <1>2 DEF Reaches
  <1> DEFINE Result == /\ JobSound(k)' /\ RowMoves(job[k], job'[k])
                       /\ job[k].state # "absent" /\ job'[k].state # "absent"
  <1>4. ASSUME At(job[k], job'[k], step) PROVE Result
    <2>1. Sound(job'[k])
      BY <1>0, <1>2, <1>4, StepNames, SoundRows DEF JobSound
    <2>2. JobSound(k)' /\ RowMoves(job[k], job'[k])
      BY <1>4, <2>1 DEF JobSound, At, RowMoves
    <2>3. job[k].state # "absent" /\ job'[k].state # "absent"
      BY <1>4 DEF JobSound, Sound, At
    <2> QED BY <2>2, <2>3
  <1>5. ASSUME Fell(job[k], job'[k]) PROVE Result
    BY <1>2, <1>5, Falling
  <1>6. Result
    BY <1>2, <1>3, <1>4, <1>5
  <1>7. \A j \in Jobs \ {k} :
           \/ job'[j] = job[j]
           \/ j = i /\ job[j].state = "absent" /\ job'[j] = Ready
    BY <1>1, <1>2 DEF OnlyOf
  <1>8. faults <= faults'
    BY <1>0, <1>2, ExecutionAssumption
  <1> QED BY <1>1, <1>2, <1>3, <1>6, <1>7, <1>8 DEF Turn, OnlyOf

\* A new attempt of k starts at a step.
Begins(k, step) ==
    /\ Turn(k, k) /\ faults' = faults
    /\ job[k].at = "idle" /\ job[k].state = "ready"
    /\ job'[k].at = step /\ job'[k].state = "running"
    /\ job'[k].attempts = job[k].attempts + 1

\* A claim does that.
LEMMA ClaimDoes ==
  ASSUME TypeOK, NEW k \in Jobs, JobSound(k), NEW step \in StepsOf(k), Claim(k, step)
  PROVE  Begins(k, step)
  <1>1. /\ Sound(job[k]) /\ job \in [Jobs -> JobRows(Steps)] /\ faults \in 0 .. MaxFaults
        /\ step \in Steps /\ step # "idle"
    BY StepNames DEF TypeOK, JobSound
  <1>2. /\ job' \in [Jobs -> JobRows(Steps)] /\ faults' = faults /\ OnlyOf(job, k)
        /\ job[k].state = "ready" /\ job[k].at = "idle"
        /\ job'[k] = [state |-> "running", attempts |-> job[k].attempts + 1, at |-> step]
    BY <1>1, Claiming
  <1>3. JobSound(k)'
    BY <1>1, <1>2, SoundRows DEF JobSound
  <1>4. RowMoves(job[k], job'[k])
    BY <1>1, <1>2 DEF RowMoves, Sound
  <1> QED BY <1>1, <1>2, <1>3, <1>4, ExecutionAssumption DEF Turn, Begins, OnlyOf

\* An execution ends, done or at the cost of a fault.
Finishes(k) ==
    /\ Turn(k, k)
    /\ job[k].at # "idle" /\ job'[k].at = "idle"
    /\ job'[k].attempts = job[k].attempts
    /\ \/ faults' = faults /\ job[k].at = "report" /\ job'[k].state = "done"
       \/ faults' = faults + 1 /\ job'[k].state # "done"

\* Completion and failure do that.
LEMMA EndDoes ==
  ASSUME TypeOK, NEW k \in Jobs, JobSound(k), StepFails(k) \/ Complete(k)
  PROVE  Finishes(k)
  <1>1. /\ Sound(job[k]) /\ job \in [Jobs -> JobRows(Steps)] /\ faults \in 0 .. MaxFaults
    BY DEF TypeOK, JobSound
  <1>2. CASE StepFails(k)
    <2>1. /\ job' \in [Jobs -> JobRows(Steps)] /\ faults' \in 0 .. MaxFaults
          /\ OnlyOf(job, k) /\ faults' = faults + 1 /\ Fell(job[k], job'[k])
          /\ job[k].at # "idle"
      BY <1>1, <1>2, StepFailing DEF StepFails
    <2>2. JobSound(k)' /\ RowMoves(job[k], job'[k])
          /\ job[k].state # "absent" /\ job'[k].state # "absent"
      BY <2>1, Falling
    <2>3. faults <= faults'
      BY <1>1, <2>1, ExecutionAssumption
    <2> QED BY <1>1, <2>1, <2>2, <2>3 DEF Finishes, Turn, Fell, OnlyOf
  <1>3. CASE Complete(k)
    <2>1. /\ job' \in [Jobs -> JobRows(Steps)] /\ faults' = faults
          /\ OnlyOf(job, k) /\ job[k].at = "report"
          /\ job'[k] = [state |-> "done", attempts |-> job[k].attempts, at |-> "idle"]
      BY <1>1, <1>3, Completing
    <2>2. JobSound(k)'
      BY <1>1, <2>1, SoundRows DEF JobSound
    <2>3. RowMoves(job[k], job'[k]) /\ job[k].state = "running"
      BY <1>1, <2>1 DEF RowMoves, Sound
    <2> QED BY <1>1, <2>1, <2>2, <2>3, ExecutionAssumption DEF Finishes, Turn, OnlyOf
  <1> QED BY <1>2, <1>3

\* An execution that raises or buries its job ends without a fault.
Drops(k) ==
    /\ Turn(k, k) /\ faults' = faults
    /\ job[k].at # "idle" /\ job'[k].at = "idle"
    /\ job'[k].attempts = job[k].attempts /\ job'[k].state # "done"

\* Raises and Buries do that.
LEMMA DropDoes ==
  ASSUME TypeOK, NEW k \in Jobs, JobSound(k), job[k].at # "idle", Raises(k) \/ Buries(k)
  PROVE  Drops(k)
  <1>1. /\ Sound(job[k]) /\ job \in [Jobs -> JobRows(Steps)] /\ faults \in 0 .. MaxFaults
        /\ faults' = faults
    BY DEF TypeOK, JobSound, Raises, Buries
  <1>2. job' \in [Jobs -> JobRows(Steps)] /\ OnlyOf(job, k) /\ Fell(job[k], job'[k])
    <2>1. CASE Raises(k)
      BY <1>1, <2>1, Failing DEF Raises
    <2>2. CASE Buries(k)
      <3>1. job' = [job EXCEPT ![k].state = "dead", ![k].at = "idle"]
        BY <2>2 DEF Buries
      <3> QED BY <1>1, <3>1 DEF OnlyOf, Fell, JobRows, JobStates
    <2> QED BY <2>1, <2>2
  <1>3. JobSound(k)' /\ RowMoves(job[k], job'[k])
        /\ job[k].state # "absent" /\ job'[k].state # "absent"
    BY <1>2, Falling
  <1> QED BY <1>1, <1>2, <1>3, ExecutionAssumption DEF Drops, Turn, Fell, OnlyOf

-----------------------------------------------------------------------------
(* Frames.                                                                 *)

\* A draft that a step leaves alone.
LEMMA DraftFrame ==
  ASSUME BaseInv, NEW e \in Drafts, UNCHANGED settings,
         job'[Draft(e)] = job[Draft(e)],
         job'[AutoQuote(e)].state = "absent" <=> job[AutoQuote(e)].state = "absent",
         payload'[e] = payload[e], reviews \subseteq reviews',
         \A q \in QuoteIds : Exists(q) => Exists(q)',
         \A n \in 1 .. MaxAttempts : Exists(<<e, n>>)' => Exists(<<e, n>>)
  PROVE  DraftSound(e)' /\ PayloadSound(e)'
  <1>1. DraftSound(e) /\ PayloadSound(e) /\ autoMax' = autoMax
    BY DEF BaseInv, settings
  <1>2. \A n \in 1 .. MaxAttempts : Exists(<<e, n>>)' <=> Exists(<<e, n>>)
    BY Ids
  <1>3. Own(e)' = Own(e) /\ (Past(e)' <=> Past(e))
    BY DEF Own, Past
  <1>4. PayloadSound(e)'
    BY <1>1 DEF PayloadSound
  <1>5. /\ (job[Draft(e)].at \in {"autoSend", "task"} => Own(e) \in QuoteIds)
        /\ Own(e) \in QuoteIds => (Exists(Own(e))' <=> Exists(Own(e)))
    <2>1. job[Draft(e)].at # "idle" => job[Draft(e)].attempts \in 1 .. MaxAttempts
      BY QuoteKeys, ExecutionAssumption DEF BaseInv, JobSound, Sound, TypeOK, JobRows
    <2>2. job[Draft(e)].at \in {"autoSend", "task"} => Own(e) \in QuoteIds
      BY <2>1, Ids DEF Own
    <2>3. Own(e) \in QuoteIds => job[Draft(e)].attempts \in 1 .. MaxAttempts
      BY DEF Own, QuoteIds
    <2> QED BY <1>2, <2>2, <2>3 DEF Own
  <1>6. DraftSound(e)'
    BY <1>1, <1>2, <1>3, <1>5 DEF DraftSound
  <1> QED BY <1>4, <1>6

\* What is left to show of a step of a job that changes no request.
LEMMA BaseKept ==
  ASSUME BaseInv, NEW k \in Jobs, NEW i \in Jobs, Turn(k, i), UNCHANGED <<settings, asked>>,
         \A q \in QuoteIds : i # Send(q) \/ i = k,
         quote' \in [QuoteIds -> Statuses],
         payload' \in [Drafts -> QuoteIds \cup {NoQuote}], reviews' \subseteq QuoteIds,
         \A q \in QuoteIds : Exists(q) => Exists(q)',
         \A q \in QuoteIds : quote'[q] = "awaiting_review" =>
            quote[q] = "awaiting_review" \/ ~autoMax[q[1]],
         migrated \/ \A q \in QuoteIds : Exists(q)' => Exists(q),
         \A e \in Drafts : DraftSound(e)' /\ PayloadSound(e)'
  PROVE  BaseInv'
  <1>1. autoMax' = autoMax /\ migrated' = migrated
    BY DEF settings
  <1>2. TypeOK'
    BY <1>1 DEF BaseInv, TypeOK, Turn
  <1>3. ASSUME NEW j \in Jobs PROVE JobSound(j)'
    <2>1. JobSound(j)
      BY DEF BaseInv
    <2>2. Ready = [state |-> "ready", attempts |-> 0, at |-> "idle"]
      BY DEF Ready, Absent
    <2> QED BY <2>1, <2>2, ExecutionAssumption DEF Turn, JobSound, Sound
  <1>4. ASSUME NEW q \in QuoteIds PROVE QuoteSound(q)'
    <2>1. job'[Send(q)].state # "absent" => job[Send(q)].state # "absent"
      BY QuoteKeys DEF Turn
    <2> QED BY <1>1, <2>1 DEF BaseInv, QuoteSound
  <1>5. ASSUME NEW r \in Approvals PROVE AskedSound(r)'
    BY <1>1 DEF BaseInv, AskedSound
  <1>6. migrated' \/ \A q \in QuoteIds : ~Exists(q)'
    BY <1>1 DEF BaseInv
  <1> QED BY <1>2, <1>3, <1>4, <1>5, <1>6 DEF BaseInv

-----------------------------------------------------------------------------
(* The drafting worker.                                                    *)

\* How an execution of the draft d goes on, ends or begins.
Outcome(d) ==
    \/ /\ job'[Draft(d)].attempts = job[Draft(d)].attempts
       /\ \/ faults' = faults /\ (job'[Draft(d)].at # "idle" \/ job'[Draft(d)].state = "done")
          \/ faults' = faults + 1
          \/ ~migrated
    \/ /\ job'[Draft(d)].attempts = job[Draft(d)].attempts + 1
       /\ job[Draft(d)].at = "idle" /\ job[Draft(d)].state # "done"
       /\ job'[Draft(d)].at # "idle"

\* What a step of draft d does.
DraftDoes(d) ==
    /\ \E i \in {Draft(d), AutoQuote(d), Escalate(d)} : Turn(Draft(d), i)
    /\ UNCHANGED <<settings, asked>>
    /\ Outcome(d)
    /\ \/ payload' = payload
       \/ /\ payload[d] = NoQuote /\ payload' = [payload EXCEPT ![d] = Own(d)]
          /\ job'[Draft(d)].attempts = job[Draft(d)].attempts
          /\ job'[Draft(d)].state # "done"
    /\ \A q \in QuoteIds : quote'[q] = "approved" /\ ~autoMax[q[1]] => quote[q] = "approved"

\* The row of a draft that runs.
LEMMA DraftRow ==
  ASSUME BaseInv, NEW d \in Drafts
  PROVE  /\ TypeOK /\ JobSound(Draft(d)) /\ Sound(job[Draft(d)])
         /\ job[Draft(d)].attempts \in 0 .. MaxAttempts
         /\ job[Draft(d)].at # "idle" => Own(d) \in QuoteIds /\ job[Draft(d)].state = "running"
         /\ StepsOf(Draft(d)) =
              {"load", "insert", "autoSend", "task", "stage", "event", "report"}
         /\ Draft(d) \in Jobs /\ DraftSound(d) /\ PayloadSound(d)
  <1>1. TypeOK /\ JobSound(Draft(d)) /\ Draft(d) \in Jobs
    BY QuoteKeys DEF BaseInv
  <1>2. Sound(job[Draft(d)]) /\ job[Draft(d)].attempts \in 0 .. MaxAttempts
    BY <1>1 DEF JobSound, TypeOK, JobRows
  <1>3. job[Draft(d)].at # "idle" =>
           job[Draft(d)].attempts \in 1 .. MaxAttempts /\ job[Draft(d)].state = "running"
    BY <1>2, ExecutionAssumption DEF Sound
  <1>4. StepsOf(Draft(d)) =
              {"load", "insert", "autoSend", "task", "stage", "event", "report"}
    BY QuoteKeys DEF StepsOf
  <1> QED BY <1>1, <1>2, <1>3, <1>4, Ids DEF Own, BaseInv

\* A step of draft d that is sound for d is sound.
LEMMA DraftKeeps ==
  ASSUME BaseInv, NEW d \in Drafts, NEW i \in {Draft(d), AutoQuote(d), Escalate(d)},
         Turn(Draft(d), i), UNCHANGED <<settings, asked>>,
         quote' \in [QuoteIds -> Statuses],
         payload' \in [Drafts -> QuoteIds \cup {NoQuote}],
         \A e \in Drafts \ {d} : payload'[e] = payload[e],
         reviews \subseteq reviews', reviews' \subseteq QuoteIds,
         \A q \in QuoteIds : q[1] # d => quote'[q] = quote[q],
         \A q \in QuoteIds : Exists(q) => Exists(q)',
         \A q \in QuoteIds : quote'[q] = "awaiting_review" =>
            quote[q] = "awaiting_review" \/ ~autoMax[q[1]],
         migrated \/ quote' = quote,
         DraftSound(d)', PayloadSound(d)'
  PROVE  BaseInv'
  <1>1. ASSUME NEW e \in Drafts, e # d PROVE DraftSound(e)' /\ PayloadSound(e)'
    <2>1. /\ Draft(e) \in Jobs \ {Draft(d)} /\ AutoQuote(e) \in Jobs \ {Draft(d)}
          /\ Draft(e) # i /\ AutoQuote(e) # i
      BY <1>1, QuoteKeys
    <2>2. job'[Draft(e)] = job[Draft(e)] /\ job'[AutoQuote(e)] = job[AutoQuote(e)]
      BY <2>1 DEF Turn
    <2>3. \A n \in 1 .. MaxAttempts : Exists(<<e, n>>)' => Exists(<<e, n>>)
      BY <1>1, Ids DEF Exists
    <2> QED BY <1>1, <2>2, <2>3, DraftFrame
  <1>2. migrated \/ \A q \in QuoteIds : Exists(q)' => Exists(q)
    BY DEF Exists
  <1>3. /\ Draft(d) \in Jobs /\ i \in Jobs
        /\ \A q \in QuoteIds : i # Send(q) \/ i = Draft(d)
    BY QuoteKeys
  <1>4. \A e \in Drafts : DraftSound(e)' /\ PayloadSound(e)'
    BY <1>1
  <1> QED BY <1>2, <1>3, <1>4, BaseKept

\* A step of draft d that writes no quote and enqueues nothing for it.
LEMMA DraftGoesOn ==
  ASSUME BaseInv, NEW d \in Drafts, NEW i \in {Draft(d), Escalate(d)},
         Turn(Draft(d), i), UNCHANGED <<settings, asked, quote, payload>>,
         reviews \subseteq reviews', reviews' \subseteq QuoteIds, DraftSound(d)'
  PROVE  BaseInv'
  <1>1. PayloadSound(d)'
    <2>1. /\ AutoQuote(d) \in Jobs \ {Draft(d)} /\ AutoQuote(d) # i
      BY QuoteKeys
    <2>2. job'[AutoQuote(d)] = job[AutoQuote(d)]
      BY <2>1 DEF Turn
    <2> QED BY <2>2, DraftRow DEF PayloadSound, Exists, settings
  <1>2. quote \in [QuoteIds -> Statuses] /\ payload \in [Drafts -> QuoteIds \cup {NoQuote}]
    BY DEF BaseInv, TypeOK
  <1> QED BY <1>1, <1>2, DraftKeeps DEF Exists

\* A claim, a step of a draft that ends, and its failure.
LEMMA DraftClaims ==
  ASSUME BaseInv, NEW d \in Drafts, Claim(Draft(d), "load"),
         UNCHANGED <<tables, settings, asked>>
  PROVE  BaseInv' /\ DraftDoes(d)
  <1>1. Begins(Draft(d), "load")
    BY DraftRow, ClaimDoes
  <1>2. UNCHANGED <<quote, payload, reviews>> /\ reviews \subseteq QuoteIds
    BY DraftRow DEF tables, TypeOK
  <1>3. DraftSound(d)'
    <2>1. \A n \in 1 .. MaxAttempts : Exists(<<d, n>>)' => n < job'[Draft(d)].attempts
      BY <1>1, <1>2, DraftRow, ExecutionAssumption DEF DraftSound, Exists, Begins
    <2> QED BY <1>1, <2>1, QuoteKeys DEF DraftSound, Begins, Past
  <1>4. BaseInv'
    BY <1>1, <1>2, <1>3, DraftGoesOn DEF Begins
  <1> QED BY <1>1, <1>2, <1>4 DEF DraftDoes, Outcome, Begins

\* A draft that ends.
LEMMA DraftEnds ==
  ASSUME BaseInv, NEW d \in Drafts, Finishes(Draft(d)), UNCHANGED <<tables, settings, asked>>
  PROVE  BaseInv' /\ DraftDoes(d)
  <1>2. UNCHANGED <<quote, payload, reviews>> /\ reviews \subseteq QuoteIds
    BY DraftRow DEF tables, TypeOK
  <1>3. DraftSound(d)'
    <2>1. Own(d)' = Own(d) /\ (Past(d)' => Past(d))
      BY DEF Own, Past, Finishes
    <2>2. autoMax' = autoMax
      BY DEF settings
    <2>3. \A n \in 1 .. MaxAttempts :
             Exists(<<d, n>>)' => n < job'[Draft(d)].attempts \/ n = job'[Draft(d)].attempts
      BY <1>2, DraftRow DEF DraftSound, Exists, Finishes
    <2> QED BY <1>2, <2>1, <2>2, <2>3, DraftRow DEF DraftSound, Finishes, Exists
  <1>4. BaseInv'
    BY <1>2, <1>3, DraftGoesOn DEF Finishes
  <1> QED BY <1>2, <1>4 DEF DraftDoes, Outcome, Finishes

\* A call of draft d reaches the next step or fails, and its attempt stays the same.
LEMMA DraftReaches ==
  ASSUME NEW d \in Drafts, NEW step, step # "idle", Reaches(Draft(d), step)
  PROVE  /\ Outcome(d)
         /\ job'[Draft(d)].attempts = job[Draft(d)].attempts
         /\ \/ job'[Draft(d)].at = step
            \/ job'[Draft(d)].at = "idle" /\ job'[Draft(d)].state # "done"
         /\ job[Draft(d)].state = "running" => job'[Draft(d)].state # "done"
  BY DEF Reaches, At, Fell, Outcome

\* The draft is made, or left to a person.
LEMMA LoadDoes ==
  ASSUME BaseInv, NEW d \in Drafts, Load(d)
  PROVE  BaseInv' /\ DraftDoes(d)
  <1>1. PICK i \in {Draft(d), Escalate(d)}, step \in {"insert", "report"} :
          Turn(Draft(d), i) /\ Reaches(Draft(d), step)
    <2>1. job[Draft(d)].at = "load"
      BY DEF Load
    <2>2. CASE GoesOn(Draft(d), "insert")
      BY <2>1, <2>2, DraftRow, Calling DEF GoesOn
    <2>3. CASE GoesOnWith(Enqueued(job, <<"escalate", d>>), Draft(d), "report")
      <3>1. Escalate(d) \in Jobs /\ Escalate(d) # Draft(d)
        BY QuoteKeys
      <3> QED BY <2>1, <2>3, <3>1, DraftRow, Calling DEF Escalate
    <2> QED BY <2>2, <2>3 DEF Load
  <1>2. UNCHANGED <<quote, payload, reviews, asked, settings>> /\ reviews \subseteq QuoteIds
    BY DraftRow DEF Load, tables, TypeOK
  <1>3. /\ Outcome(d) /\ job'[Draft(d)].attempts = job[Draft(d)].attempts
        /\ job'[Draft(d)].at \in {"insert", "report", "idle"}
    BY <1>1, DraftReaches
  <1>4. \A n \in 1 .. MaxAttempts : Exists(<<d, n>>)' => n < job'[Draft(d)].attempts
    BY <1>2, <1>3, DraftRow DEF Load, DraftSound, Exists
  <1>5. Own(d)' \in QuoteIds => ~Exists(Own(d))'
    <2>1. Own(d)' \in QuoteIds => job'[Draft(d)].attempts \in 1 .. MaxAttempts
      BY DEF Own, QuoteIds
    <2> QED BY <1>4, <2>1 DEF Own
  <1>6. DraftSound(d)'
    BY <1>3, <1>4, <1>5 DEF DraftSound
  <1>7. BaseInv'
    BY <1>1, <1>2, <1>6, DraftGoesOn
  <1> QED BY <1>1, <1>2, <1>3, <1>7 DEF DraftDoes

\* The insert is refused.
LEMMA RejectionDoes ==
  ASSUME BaseInv, NEW d \in Drafts, InsertRejected(d)
  PROVE  BaseInv' /\ DraftDoes(d)
  <1>1. Drops(Draft(d))
    BY DraftRow, DropDoes DEF InsertRejected
  <1>2. UNCHANGED <<quote, payload, reviews, asked, settings>> /\ reviews \subseteq QuoteIds
    BY DraftRow DEF InsertRejected, tables, TypeOK
  <1>3. \A q \in QuoteIds : ~Exists(q)'
    BY <1>2 DEF InsertRejected, BaseInv, Exists
  <1>4. DraftSound(d)'
    BY <1>1, <1>3, Ids DEF Drops, DraftSound
  <1>5. BaseInv'
    BY <1>1, <1>2, <1>4, DraftGoesOn DEF Drops
  <1> QED BY <1>1, <1>2, <1>5 DEF DraftDoes, Drops, Outcome, InsertRejected

\* The quote is inserted.
LEMMA InsertDoes ==
  ASSUME BaseInv, NEW d \in Drafts, Insert(d)
  PROVE  BaseInv' /\ DraftDoes(d)
  <1> DEFINE status == IF autoMax[d] THEN "approved" ELSE "awaiting_review"
             step == IF autoMax[d] THEN "autoSend" ELSE "task"
  <1>1. /\ Turn(Draft(d), Draft(d)) /\ Reaches(Draft(d), step)
        /\ job[Draft(d)].at = "insert" /\ job[Draft(d)].state = "running"
    <2>1. job[Draft(d)].at = "insert" /\ GoesOnWith(job, Draft(d), step)
      BY DEF Insert, GoesOn
    <2>2. step \in StepsOf(Draft(d))
      BY DraftRow
    <2> HIDE DEF step
    <2> QED BY <2>1, <2>2, DraftRow, Calling
  <1>2. /\ UNCHANGED <<payload, reviews, asked, settings>> /\ migrated
        /\ quote' = [quote EXCEPT ![Own(d)] = status]
    BY DEF Insert
  <1>3. /\ Outcome(d) /\ job'[Draft(d)].attempts = job[Draft(d)].attempts
        /\ job'[Draft(d)].state # "done" /\ job'[Draft(d)].at \in {step, "idle"}
    <2>1. step # "idle"
      OBVIOUS
    <2> HIDE DEF step
    <2> QED BY <1>1, <2>1, DraftReaches
  <1>4. Own(d) \in QuoteIds /\ Own(d)' = Own(d) /\ autoMax' = autoMax
    BY <1>1, <1>2, <1>3, DraftRow DEF Own, settings
  <1>5. /\ quote' \in [QuoteIds -> Statuses]
        /\ quote'[Own(d)] = status /\ status \in {"approved", "awaiting_review"}
        /\ \A q \in QuoteIds : q # Own(d) => quote'[q] = quote[q]
    BY <1>2, <1>4 DEF Statuses, BaseInv, TypeOK
  <1>6. \A q \in QuoteIds : Exists(q) => Exists(q)'
    BY <1>5 DEF Exists
  <1>7. DraftSound(d)'
    <2>1. ASSUME NEW n \in 1 .. MaxAttempts, Exists(<<d, n>>)'
          PROVE  n < job'[Draft(d)].attempts \/ n = job'[Draft(d)].attempts
      <3>1. CASE <<d, n>> = Own(d)
        BY <1>3, <3>1 DEF Own
      <3>2. CASE <<d, n>> # Own(d)
        BY <1>3, <1>5, <2>1, <3>2, Ids, DraftRow DEF DraftSound, Exists
      <3> QED BY <3>1, <3>2
    <2>2. ~Past(d)' /\ Exists(Own(d))'
      BY <1>3, <1>4, <1>5 DEF Past, Exists
    <2> QED BY <1>3, <1>4, <2>1, <2>2 DEF DraftSound
  <1>8. PayloadSound(d)'
    <2>1. job'[AutoQuote(d)] = job[AutoQuote(d)]
      BY <1>1, QuoteKeys DEF Turn
    <2> QED BY <1>2, <1>4, <1>6, <2>1, DraftRow DEF PayloadSound
  <1>9. BaseInv'
    <2>1. /\ \A q \in QuoteIds : q[1] # d => quote'[q] = quote[q]
          /\ \A q \in QuoteIds : quote'[q] = "awaiting_review" =>
                quote[q] = "awaiting_review" \/ ~autoMax[q[1]]
      BY <1>5 DEF Own
    <2>2. payload \in [Drafts -> QuoteIds \cup {NoQuote}] /\ reviews \subseteq QuoteIds
      BY DEF BaseInv, TypeOK
    <2> QED BY <1>1, <1>2, <1>5, <1>6, <1>7, <1>8, <2>1, <2>2, DraftKeeps
  <1>10. \A q \in QuoteIds : quote'[q] = "approved" /\ ~autoMax[q[1]] => quote[q] = "approved"
    BY <1>5 DEF Own
  <1> QED BY <1>1, <1>2, <1>3, <1>9, <1>10 DEF DraftDoes

\* The quote is handed to the auto-send job, which keeps the one that it has.
LEMMA AutoSendDoes ==
  ASSUME BaseInv, NEW d \in Drafts, AutoSend(d)
  PROVE  BaseInv' /\ DraftDoes(d)
  <1>0. /\ AutoQuote(d) \in Jobs \ {Draft(d)} /\ job[Draft(d)].at = "autoSend"
        /\ GoesOnWith(Enqueued(job, AutoQuote(d)), Draft(d), "stage")
    BY QuoteKeys DEF AutoSend
  <1>1. /\ Turn(Draft(d), AutoQuote(d)) /\ Reaches(Draft(d), "stage")
        /\ job'[AutoQuote(d)].state # "absent"
    BY <1>0, DraftRow, Calling
  <1>2. /\ UNCHANGED <<quote, reviews, asked, settings>> /\ reviews \subseteq QuoteIds
        /\ quote \in [QuoteIds -> Statuses]
        /\ payload \in [Drafts -> QuoteIds \cup {NoQuote}]
        /\ payload' = [payload EXCEPT ![d] =
                           IF payload[d] = NoQuote THEN Own(d) ELSE payload[d]]
    BY DraftRow DEF AutoSend, TypeOK
  <1>3. /\ Outcome(d) /\ job'[Draft(d)].attempts = job[Draft(d)].attempts
        /\ job'[Draft(d)].at \in {"stage", "idle"} /\ job'[Draft(d)].state # "done"
    BY <1>0, <1>1, DraftRow, DraftReaches
  <1>4. /\ Own(d) \in QuoteIds /\ Own(d)' = Own(d) /\ autoMax' = autoMax
        /\ autoMax[d] /\ Exists(Own(d)) /\ Own(d)[1] = d
    BY <1>0, <1>2, <1>3, DraftRow DEF Own, settings, DraftSound
  <1>5. /\ payload' \in [Drafts -> QuoteIds \cup {NoQuote}]
        /\ \A e \in Drafts \ {d} : payload'[e] = payload[e]
        /\ payload'[d] = IF payload[d] = NoQuote THEN Own(d) ELSE payload[d]
    BY <1>2, <1>4
  <1>6. PayloadSound(d)' /\ payload'[d] # NoQuote
    BY <1>1, <1>2, <1>4, <1>5, DraftRow, Ids DEF PayloadSound, Exists
  <1>7. DraftSound(d)'
    <2>1. \A n \in 1 .. MaxAttempts : Exists(<<d, n>>)' =>
             n < job'[Draft(d)].attempts \/ n = job'[Draft(d)].attempts
      BY <1>2, <1>3, DraftRow DEF DraftSound, Exists
    <2> QED BY <1>3, <1>4, <1>6, <2>1 DEF DraftSound
  <1>8. BaseInv'
    BY <1>1, <1>2, <1>5, <1>6, <1>7, DraftKeeps DEF Exists
  <1>9. \/ payload' = payload
        \/ payload[d] = NoQuote /\ payload' = [payload EXCEPT ![d] = Own(d)]
    BY <1>2
  <1> QED BY <1>1, <1>2, <1>3, <1>8, <1>9 DEF DraftDoes

\* The quote gets its review task.
LEMMA TaskDoes ==
  ASSUME BaseInv, NEW d \in Drafts, ReviewTask(d)
  PROVE  BaseInv' /\ DraftDoes(d)
  <1>1. /\ Turn(Draft(d), Draft(d)) /\ Reaches(Draft(d), "stage")
        /\ job[Draft(d)].at = "task"
    BY DraftRow, Calling DEF ReviewTask, GoesOn
  <1>2. UNCHANGED <<quote, payload, asked, settings>> /\ reviews' = reviews \cup {Own(d)}
    BY DEF ReviewTask
  <1>3. /\ Outcome(d) /\ job'[Draft(d)].attempts = job[Draft(d)].attempts
        /\ job'[Draft(d)].at \in {"stage", "idle"} /\ job'[Draft(d)].state # "done"
    BY <1>1, DraftRow, DraftReaches
  <1>4. /\ Own(d) \in QuoteIds /\ Own(d)' = Own(d) /\ autoMax' = autoMax /\ ~autoMax[d]
        /\ reviews' \subseteq QuoteIds
    BY <1>1, <1>2, <1>3, DraftRow DEF Own, settings, DraftSound, TypeOK
  <1>5. DraftSound(d)'
    <2>1. \A n \in 1 .. MaxAttempts : Exists(<<d, n>>)' =>
             n < job'[Draft(d)].attempts \/ n = job'[Draft(d)].attempts
      BY <1>2, <1>3, DraftRow DEF DraftSound, Exists
    <2> QED BY <1>2, <1>3, <1>4, <2>1 DEF DraftSound
  <1>6. BaseInv'
    BY <1>1, <1>2, <1>4, <1>5, DraftGoesOn
  <1> QED BY <1>1, <1>2, <1>3, <1>6 DEF DraftDoes

\* The lead's stage and the event change nothing here.
LEMMA LeadAndEventDoes ==
  ASSUME BaseInv, NEW d \in Drafts, LeadAndEvent(d)
  PROVE  BaseInv' /\ DraftDoes(d)
  <1>0. PICK step \in {"event", "report"} : GoesOnWith(job, Draft(d), step)
    BY DEF LeadAndEvent, GoesOn
  <1>1. /\ Turn(Draft(d), Draft(d)) /\ Reaches(Draft(d), step)
        /\ job[Draft(d)].at \in {"stage", "event"}
    BY <1>0, DraftRow, Calling DEF LeadAndEvent
  <1>2. UNCHANGED <<quote, payload, reviews, asked, settings>> /\ reviews \subseteq QuoteIds
    BY DraftRow DEF LeadAndEvent, tables, TypeOK
  <1>3. /\ Outcome(d) /\ job'[Draft(d)].attempts = job[Draft(d)].attempts
        /\ job'[Draft(d)].at \in {"event", "report", "idle"}
    BY <1>1, DraftReaches
  <1>4. DraftSound(d)'
    <2>1. \A n \in 1 .. MaxAttempts : Exists(<<d, n>>)' =>
             n < job'[Draft(d)].attempts \/ n = job'[Draft(d)].attempts
      BY <1>2, <1>3, DraftRow DEF DraftSound, Exists
    <2>2. Past(d) /\ Own(d)' = Own(d) /\ autoMax' = autoMax
      BY <1>1, <1>2, <1>3 DEF Past, Own, settings
    <2> QED BY <1>2, <1>3, <2>1, <2>2, DraftRow DEF DraftSound, Exists
  <1>5. BaseInv'
    BY <1>1, <1>2, <1>4, DraftGoesOn
  <1> QED BY <1>1, <1>2, <1>3, <1>5 DEF DraftDoes

\* A step of the drafting worker.
LEMMA DraftingDoes ==
  ASSUME BaseInv, NEW d \in Drafts, Drafting(d)
  PROVE  BaseInv' /\ DraftDoes(d)
  BY DraftClaims, LoadDoes, InsertDoes, RejectionDoes, AutoSendDoes, TaskDoes, LeadAndEventDoes
     DEF Drafting

-----------------------------------------------------------------------------
(* The outbound worker, and the ends of its jobs.                          *)

\* What a step of such a job does.
SendDoes(k) ==
    /\ Turn(k, k)
    /\ UNCHANGED <<payload, reviews, settings, asked>>
    /\ quote' \in [QuoteIds -> Statuses]
    /\ \A q \in QuoteIds : quote'[q] = quote[q] \/ (Exists(q) /\ quote'[q] = "sent")

\* The row of such a job, and its quote.
LEMMA SendRow ==
  ASSUME BaseInv, NEW k \in SendJobs
  PROVE  /\ k \in Jobs /\ TypeOK /\ JobSound(k)
         /\ StepsOf(k) = {"text", "mark", "followUp", "report"}
         /\ job[k].state # "absent" => QuoteOf(k) \in QuoteIds /\ Exists(QuoteOf(k))
         /\ job[k].at # "idle" => job[k].state # "absent"
  <1>1. k \in Jobs /\ TypeOK /\ JobSound(k) /\ k[1] \in {"auto", "send"}
    BY QuoteKeys DEF BaseInv
  <1>2. job[k].state # "absent" => QuoteOf(k) \in QuoteIds /\ Exists(QuoteOf(k))
    <2>1. ASSUME NEW d \in Drafts, k = AutoQuote(d), job[k].state # "absent"
          PROVE  QuoteOf(k) \in QuoteIds /\ Exists(QuoteOf(k))
      <3>1. QuoteOf(k) = payload[d]
        BY <2>1 DEF QuoteOf, AutoQuote
      <3> QED BY <2>1, <3>1 DEF BaseInv, PayloadSound
    <2>2. ASSUME NEW q \in QuoteIds, k = Send(q), job[k].state # "absent"
          PROVE  QuoteOf(k) \in QuoteIds /\ Exists(QuoteOf(k))
      <3>1. QuoteOf(k) = q
        BY <2>2 DEF QuoteOf, Send
      <3> QED BY <2>2, <3>1 DEF BaseInv, QuoteSound
    <2> QED BY <2>1, <2>2, QuoteKeys
  <1> QED BY <1>1, <1>2 DEF StepsOf, JobSound, Sound

\* Such a step is sound.
LEMMA SendKeeps ==
  ASSUME BaseInv, NEW k \in Jobs, \A d \in Drafts : k # Draft(d), SendDoes(k)
  PROVE  BaseInv'
  <1>0. /\ quote \in [QuoteIds -> Statuses] /\ payload \in [Drafts -> QuoteIds \cup {NoQuote}]
        /\ reviews \subseteq QuoteIds
    BY DEF BaseInv, TypeOK
  <1>1. \A q \in QuoteIds : Exists(q)' <=> Exists(q)
    BY DEF SendDoes, Exists
  <1>2. ASSUME NEW e \in Drafts PROVE DraftSound(e)' /\ PayloadSound(e)'
    <2>1. job'[Draft(e)] = job[Draft(e)]
      BY QuoteKeys DEF SendDoes, Turn
    <2>2. job'[AutoQuote(e)].state = "absent" <=> job[AutoQuote(e)].state = "absent"
      BY QuoteKeys DEF SendDoes, Turn
    <2>3. \A n \in 1 .. MaxAttempts : Exists(<<e, n>>)' => Exists(<<e, n>>)
      BY <1>1, Ids
    <2> QED BY <1>1, <2>1, <2>2, <2>3, DraftFrame DEF SendDoes
  <1> QED BY <1>0, <1>1, <1>2, BaseKept DEF SendDoes

\* The text, the mark and the refused follow-up.
LEMMA SendingDoes ==
  ASSUME BaseInv, NEW k \in SendJobs, Sending(k)
  PROVE  SendDoes(k)
  <1>0. quote \in [QuoteIds -> Statuses]
    BY DEF BaseInv, TypeOK
  <1>1. CASE Claim(k, "text") /\ UNCHANGED <<tables, settings, asked>>
    <2>1. Begins(k, "text")
      BY <1>1, SendRow, ClaimDoes
    <2> QED BY <1>0, <1>1, <2>1 DEF tables, Begins, SendDoes
  <1>2. CASE SendLoads(k)
    <2>1. Turn(k, k)
      <3>1. CASE GoesOnWith(job, k, "mark") \/ GoesOnWith(job, k, "report")
        BY <1>2, <3>1, SendRow, Calling DEF SendLoads
      <3>2. CASE Buries(k)
        BY <1>2, <3>2, SendRow, DropDoes DEF SendLoads, Drops
      <3> QED BY <1>2, <3>1, <3>2 DEF SendLoads, GoesOn
    <2> QED BY <1>0, <1>2, <2>1 DEF SendLoads, SendDoes, tables
  <1>3. CASE SendMarks(k)
    <2>1. PICK step \in {"report", "followUp"} : GoesOnWith(job, k, step)
      BY <1>3 DEF SendMarks, GoesOn
    <2>2. Turn(k, k)
      BY <1>3, <2>1, SendRow, Calling DEF SendMarks
    <2>3. /\ quote' = [quote EXCEPT ![QuoteOf(k)] = "sent"]
          /\ QuoteOf(k) \in QuoteIds /\ Exists(QuoteOf(k))
      BY <1>3, SendRow DEF SendMarks
    <2>4. quote' \in [QuoteIds -> Statuses]
      BY <1>0, <2>3 DEF Statuses
    <2> QED BY <1>0, <1>3, <2>2, <2>3, <2>4 DEF SendMarks, SendDoes
  <1>4. CASE FollowUpRejected(k)
    <2>1. Drops(k)
      BY <1>4, SendRow, DropDoes DEF FollowUpRejected
    <2> QED BY <1>0, <1>4, <2>1 DEF FollowUpRejected, SendDoes, tables, Drops
  <1> QED BY <1>1, <1>2, <1>3, <1>4 DEF Sending

\* The end of any job.
LEMMA EndingDoes ==
  ASSUME BaseInv, NEW k \in Jobs, StepFails(k) \/ Complete(k),
         UNCHANGED <<tables, settings, asked>>
  PROVE  BaseInv' /\ \/ \E d \in Drafts : k = Draft(d) /\ DraftDoes(d)
                     \/ (\A d \in Drafts : k # Draft(d)) /\ SendDoes(k)
  <1>1. Finishes(k)
    BY EndDoes DEF BaseInv
  <1>2. CASE \E d \in Drafts : k = Draft(d)
    BY <1>1, <1>2, DraftEnds
  <1>3. CASE \A d \in Drafts : k # Draft(d)
    <2>1. SendDoes(k)
      BY <1>1 DEF SendDoes, Finishes, BaseInv, TypeOK, tables
    <2> QED BY <1>3, <2>1, SendKeeps
  <1> QED BY <1>2, <1>3

-----------------------------------------------------------------------------
(* The requests.                                                           *)

\* A call of request r, or a decline.
RequestDoes(r) ==
    ApproveReads(r) \/ ApproveWrites(r) \/ ApproveEnqueues(r) \/ ApproveFails(r)

\* What requests and declines do to the jobs: one may enqueue the text of a quote.
SendsOne(q) ==
    /\ job' \in [Jobs -> JobRows(Steps)]
    /\ \A k \in Jobs : \/ job'[k] = job[k]
                       \/ k = Send(q) /\ job[k].state = "absent" /\ job'[k] = Ready

\* What is left to show of them.
LEMMA RequestKept ==
  ASSUME BaseInv, NEW q \in QuoteIds, SendsOne(q), faults' \in 0 .. MaxFaults,
         UNCHANGED <<payload, reviews, settings>>,
         quote' \in [QuoteIds -> Statuses],
         \A i \in QuoteIds : Exists(i)' <=> Exists(i),
         \A i \in QuoteIds : quote'[i] = "awaiting_review" => quote[i] = "awaiting_review",
         job'[Send(q)] = job[Send(q)] \/ (Exists(q) /\ ~autoMax[q[1]]),
         asked' \in [Approvals -> [quote : QuoteIds \cup {NoQuote},
                                   at : {"idle", "write", "enqueue", "done"}]],
         \A r \in Approvals : AskedSound(r)'
  PROVE  BaseInv'
  <1>1. autoMax' = autoMax /\ migrated' = migrated
    BY DEF settings
  <1>2. TypeOK'
    BY <1>1 DEF BaseInv, TypeOK, SendsOne
  <1>3. ASSUME NEW k \in Jobs PROVE JobSound(k)'
    <2>1. JobSound(k)
      BY DEF BaseInv
    <2>2. Ready = [state |-> "ready", attempts |-> 0, at |-> "idle"]
      BY DEF Ready, Absent
    <2> QED BY <2>1, <2>2, ExecutionAssumption DEF SendsOne, JobSound, Sound
  <1>4. ASSUME NEW e \in Drafts PROVE DraftSound(e)' /\ PayloadSound(e)'
    <2>1. job'[Draft(e)] = job[Draft(e)] /\ job'[AutoQuote(e)] = job[AutoQuote(e)]
      BY QuoteKeys DEF SendsOne, AutoQuote, Send
    <2>2. \A n \in 1 .. MaxAttempts : Exists(<<e, n>>)' => Exists(<<e, n>>)
      BY Ids
    <2> QED BY <2>1, <2>2, DraftFrame
  <1>5. ASSUME NEW i \in QuoteIds PROVE QuoteSound(i)'
    <2>1. QuoteSound(i)
      BY DEF BaseInv
    <2>2. i # q => job'[Send(i)] = job[Send(i)]
      BY QuoteKeys DEF SendsOne, Send
    <2> QED BY <1>1, <2>1, <2>2 DEF QuoteSound
  <1>6. migrated' \/ \A i \in QuoteIds : ~Exists(i)'
    BY <1>1 DEF BaseInv
  <1> QED BY <1>2, <1>3, <1>4, <1>5, <1>6 DEF BaseInv

\* What a request's step, or a decline, does to the drafts, the faults and the tokens.
RequestEffect(q) ==
    /\ \E i \in QuoteIds : SendsOne(i)
    /\ faults' \in 0 .. MaxFaults /\ faults <= faults'
    /\ UNCHANGED <<payload, settings>>
    /\ RequestTokens' \subseteq RequestTokens \cup (IF faults' = faults + 1 THEN {q} ELSE {})

\* A request that goes on, and what it writes for the quote q.
LEMMA RequestGoesOn ==
  ASSUME BaseInv, NEW r \in Approvals, NEW at \in {"write", "enqueue", "done"},
         NEW q \in QuoteIds, Exists(q), ~autoMax[q[1]],
         UNCHANGED <<payload, reviews, settings>>,
         asked[r].at = "idle" \/ q = asked[r].quote,
         \A i \in Approvals \ {r} : asked'[i] = asked[i],
         asked'[r] = [quote |-> q, at |-> at],
         asked' \in [Approvals -> [quote : QuoteIds \cup {NoQuote},
                                   at : {"idle", "write", "enqueue", "done"}]],
         SendsOne(q), faults' \in 0 .. MaxFaults, faults <= faults',
         quote' = quote \/ quote' = [quote EXCEPT ![q] = "approved"],
         \/ asked[r].at # "enqueue" /\ quote' = quote
         \/ at = "enqueue"
         \/ job'[Send(q)].state # "absent"
         \/ faults' = faults + 1
  PROVE  BaseInv' /\ RequestEffect(q)
  <1>1. /\ quote' \in [QuoteIds -> Statuses]
        /\ \A i \in QuoteIds : i # q => quote'[i] = quote[i]
        /\ quote'[q] = quote[q] \/ quote'[q] = "approved"
    BY DEF BaseInv, TypeOK, Statuses
  <1>2. \A i \in QuoteIds : Exists(i)' <=> Exists(i)
    BY <1>1 DEF Exists
  <1>3. \A i \in QuoteIds : quote'[i] = "awaiting_review" => quote[i] = "awaiting_review"
    BY <1>1
  <1>4. ASSUME NEW i \in Approvals PROVE AskedSound(i)'
    <2>1. AskedSound(i) /\ autoMax' = autoMax
      BY DEF BaseInv, settings
    <2>2. CASE i = r
      BY <1>2, <2>1, <2>2 DEF AskedSound
    <2>3. CASE i # r
      BY <1>2, <2>1, <2>3 DEF AskedSound
    <2> QED BY <2>2, <2>3
  <1>5. BaseInv'
    BY <1>1, <1>2, <1>3, <1>4, RequestKept
  <1>6. RequestTokens' \subseteq RequestTokens \cup (IF faults' = faults + 1 THEN {q} ELSE {})
    <2> SUFFICES ASSUME NEW i \in QuoteIds, i # q \/ faults' # faults + 1,
                        quote'[i] = "approved", ~autoMax'[i[1]],
                        job'[Send(i)].state = "absent",
                        \A a \in Approvals : ~(asked'[a].quote = i /\ asked'[a].at = "enqueue")
                 PROVE  /\ quote[i] = "approved" /\ ~autoMax[i[1]]
                        /\ job[Send(i)].state = "absent"
                        /\ \A a \in Approvals :
                              ~(asked[a].quote = i /\ asked[a].at = "enqueue")
      BY DEF RequestTokens
    <2>1. autoMax' = autoMax
      BY DEF settings
    <2>2. job[Send(i)].state = "absent"
      BY QuoteKeys DEF SendsOne, Ready, Absent
    <2>3. CASE i # q
      <3>1. \A a \in Approvals : ~(asked[a].quote = i /\ asked[a].at = "enqueue")
        BY <2>3
      <3> QED BY <1>1, <2>1, <2>2, <2>3, <3>1
    <2>4. CASE i = q /\ faults' # faults + 1
      <3>1. asked[r].at # "enqueue" /\ quote' = quote
        BY <2>4
      <3>2. \A a \in Approvals : ~(asked[a].quote = i /\ asked[a].at = "enqueue")
        BY <2>4, <3>1
      <3> QED BY <2>1, <2>2, <3>1, <3>2
    <2> QED BY <2>3, <2>4
  <1> QED BY <1>5, <1>6 DEF RequestEffect

\* The steps of a request.
LEMMA RequestSteps ==
  ASSUME BaseInv, NEW r \in Approvals, RequestDoes(r)
  PROVE  \E q \in QuoteIds : BaseInv' /\ RequestEffect(q)
  <1>0. /\ job \in [Jobs -> JobRows(Steps)] /\ faults \in 0 .. MaxFaults
        /\ asked \in [Approvals -> [quote : QuoteIds \cup {NoQuote},
                                    at : {"idle", "write", "enqueue", "done"}]]
        /\ AskedSound(r)
    BY DEF BaseInv, TypeOK
  <1>1. faults \in Nat /\ faults <= faults
    BY <1>0, ExecutionAssumption
  <1>2. CASE ApproveReads(r)
    <2>1. PICK q \in Reviewable : asked' = [asked EXCEPT ![r] = [quote |-> q, at |-> "write"]]
      BY <1>2 DEF ApproveReads
    <2>2. q \in QuoteIds /\ Exists(q) /\ ~autoMax[q[1]]
      BY DEF Reviewable, Exists, BaseInv, QuoteSound
    <2>3. UNCHANGED <<job, faults, quote, payload, reviews, settings>> /\ asked[r].at = "idle"
      BY <1>2 DEF ApproveReads, tables
    <2>4. SendsOne(q)
      BY <1>0, <2>3 DEF SendsOne
    <2>5. /\ asked' \in [Approvals -> [quote : QuoteIds \cup {NoQuote},
                                       at : {"idle", "write", "enqueue", "done"}]]
          /\ \A i \in Approvals \ {r} : asked'[i] = asked[i]
          /\ asked'[r] = [quote |-> q, at |-> "write"]
      BY <1>0, <2>1, <2>2
    <2> QED BY <1>0, <1>1, <2>2, <2>3, <2>4, <2>5, RequestGoesOn
  <1> DEFINE q == asked[r].quote
  <1>3. asked[r].at # "idle" => q \in QuoteIds /\ Exists(q) /\ ~autoMax[q[1]]
    BY <1>0 DEF AskedSound
  <1>4. ASSUME NEW at \in {"write", "enqueue", "done"}, asked' = [asked EXCEPT ![r].at = at]
        PROVE  /\ asked' \in [Approvals -> [quote : QuoteIds \cup {NoQuote},
                                            at : {"idle", "write", "enqueue", "done"}]]
               /\ \A i \in Approvals \ {r} : asked'[i] = asked[i]
               /\ asked'[r] = [quote |-> q, at |-> at]
    BY <1>0, <1>4
  <1>5. CASE ApproveWrites(r)
    <2>1. /\ UNCHANGED <<job, faults, payload, reviews, settings>> /\ asked[r].at = "write"
          /\ quote' = [quote EXCEPT ![q] = "approved"]
          /\ asked' = [asked EXCEPT ![r].at = "enqueue"]
      BY <1>5 DEF ApproveWrites, Approved
    <2>2. SendsOne(q)
      BY <1>0, <2>1 DEF SendsOne
    <2> HIDE DEF q
    <2> QED BY <1>0, <1>1, <1>3, <1>4, <2>1, <2>2, RequestGoesOn DEF q
  <1>6. CASE ApproveEnqueues(r)
    <2>1. /\ UNCHANGED <<faults, quote, payload, reviews, settings>> /\ asked[r].at = "enqueue"
          /\ job' = Enqueued(job, Send(q))
          /\ asked' = [asked EXCEPT ![r].at = "done"]
      BY <1>6 DEF ApproveEnqueues, tables
    <2>2. Send(q) \in Jobs
      BY <1>3, <2>1, QuoteKeys
    <2>3. SendsOne(q) /\ job'[Send(q)].state # "absent"
      <3>1. /\ job' \in [Jobs -> JobRows(Steps)]
            /\ \A i \in Jobs : i # Send(q) \/ job[Send(q)].state # "absent" => job'[i] = job[i]
            /\ job[Send(q)].state = "absent" => job'[Send(q)] = Ready
            /\ job'[Send(q)].state # "absent"
        BY <1>0, <2>1, <2>2, Enqueuing
      <3> QED BY <3>1 DEF SendsOne
    <2> HIDE DEF q
    <2> QED BY <1>0, <1>1, <1>3, <1>4, <2>1, <2>3, RequestGoesOn DEF q
  <1>7. CASE ApproveFails(r)
    <2>1. /\ UNCHANGED <<job, payload, reviews, settings>>
          /\ asked[r].at \in {"write", "enqueue"}
          /\ quote' = quote \/ quote' = [quote EXCEPT ![q] = "approved"]
          /\ asked' = [asked EXCEPT ![r].at = "done"]
          /\ faults < MaxFaults /\ faults' = faults + 1
      BY <1>7 DEF ApproveFails, Approved, Fault
    <2>2. SendsOne(q)
      BY <1>0, <2>1 DEF SendsOne
    <2>3. faults' \in 0 .. MaxFaults /\ faults <= faults'
      BY <1>0, <2>1, ExecutionAssumption
    <2> HIDE DEF q
    <2> QED BY <1>0, <1>3, <1>4, <2>1, <2>2, <2>3, RequestGoesOn DEF q
  <1> QED BY <1>2, <1>5, <1>6, <1>7 DEF RequestDoes

\* A decline.
LEMMA DeclineDoes ==
  ASSUME BaseInv, NEW q \in QuoteIds, Decline(q)
  PROVE  BaseInv' /\ RequestEffect(q)
  <1>0. /\ job \in [Jobs -> JobRows(Steps)] /\ faults \in 0 .. MaxFaults
        /\ asked \in [Approvals -> [quote : QuoteIds \cup {NoQuote},
                                    at : {"idle", "write", "enqueue", "done"}]]
        /\ \A r \in Approvals : AskedSound(r)
    BY DEF BaseInv, TypeOK
  <1>1. /\ UNCHANGED <<job, faults, payload, reviews, settings, asked>>
        /\ quote' = [quote EXCEPT ![q] = "void"] /\ Exists(q)
    BY DEF Decline, Exists
  <1>2. /\ quote' \in [QuoteIds -> Statuses]
        /\ \A i \in QuoteIds : i # q => quote'[i] = quote[i]
        /\ quote'[q] = "void"
    BY <1>1 DEF BaseInv, TypeOK, Statuses
  <1>3. /\ \A i \in QuoteIds : Exists(i)' <=> Exists(i)
        /\ \A i \in QuoteIds : quote'[i] = "awaiting_review" => quote[i] = "awaiting_review"
    BY <1>1, <1>2 DEF Exists
  <1>4. SendsOne(q) /\ autoMax' = autoMax
    BY <1>0, <1>1 DEF SendsOne, settings
  <1>5. \A r \in Approvals : AskedSound(r)'
    BY <1>0, <1>1, <1>3, <1>4 DEF AskedSound
  <1>6. BaseInv'
    BY <1>0, <1>1, <1>2, <1>3, <1>4, <1>5, RequestKept
  <1>7. RequestTokens' \subseteq RequestTokens
    BY <1>1, <1>2, <1>4 DEF RequestTokens
  <1> QED BY <1>0, <1>1, <1>4, <1>6, <1>7, ExecutionAssumption DEF RequestEffect

-----------------------------------------------------------------------------
(* The base.                                                               *)

\* At first there is no quote.
LEMMA BaseInit == ASSUME Init PROVE BaseInv
  <1>1. /\ \A k \in Jobs : job[k] \in {Ready, Absent}
        /\ \A k \in SendJobs : job[k] = Absent
        /\ Ready = [state |-> "ready", attempts |-> 0, at |-> "idle"]
        /\ Absent = [state |-> "absent", attempts |-> 0, at |-> "idle"]
    BY DEF Init, Ready, Absent, SendJobs
  <1>2. TypeOK
    <2>1. job \in [Jobs -> JobRows(Steps)]
      BY <1>1, ExecutionAssumption DEF Init, JobRows, JobStates
    <2> QED BY <2>1, ExecutionAssumption DEF Init, TypeOK, Statuses
  <1>3. \A k \in Jobs : JobSound(k)
    BY <1>1, ExecutionAssumption DEF JobSound, Sound
  <1>4. \A q \in QuoteIds : ~Exists(q) /\ QuoteSound(q)
    BY <1>1, QuoteKeys DEF Init, Exists, QuoteSound
  <1>5. \A r \in Approvals : AskedSound(r)
    BY DEF Init, AskedSound
  <1>6. ASSUME NEW d \in Drafts PROVE DraftSound(d) /\ PayloadSound(d)
    BY <1>1, <1>4, QuoteKeys, Ids DEF DraftSound, PayloadSound, Init
  <1> QED BY <1>2, <1>3, <1>4, <1>5, <1>6 DEF BaseInv

\* What a step is.
LEMMA StepKinds ==
  ASSUME BaseInv, Next
  PROVE  /\ BaseInv'
         /\ \/ \E d \in Drafts : DraftDoes(d)
            \/ \E k \in Jobs : (\A d \in Drafts : k # Draft(d)) /\ SendDoes(k)
            \/ \E q \in QuoteIds : RequestEffect(q)
  <1>1. ASSUME NEW d \in Drafts, Drafting(d) PROVE BaseInv' /\ DraftDoes(d)
    BY <1>1, DraftingDoes
  <1>2. ASSUME NEW k \in SendJobs, Sending(k)
        PROVE  BaseInv' /\ k \in Jobs /\ (\A d \in Drafts : k # Draft(d)) /\ SendDoes(k)
    BY <1>2, SendingDoes, SendKeeps, QuoteKeys
  <1>3. ASSUME NEW k \in Jobs, StepFails(k) \/ Complete(k),
               UNCHANGED <<tables, settings, asked>>
        PROVE  BaseInv' /\ \/ \E d \in Drafts : DraftDoes(d)
                           \/ (\A d \in Drafts : k # Draft(d)) /\ SendDoes(k)
    BY <1>3, EndingDoes
  <1>4. ASSUME NEW r \in Approvals, RequestDoes(r)
        PROVE  \E q \in QuoteIds : BaseInv' /\ RequestEffect(q)
    BY <1>4, RequestSteps
  <1>5. ASSUME NEW q \in QuoteIds, Decline(q) PROVE BaseInv' /\ RequestEffect(q)
    BY <1>5, DeclineDoes
  <1> QED BY <1>1, <1>2, <1>3, <1>4, <1>5 DEF Next, RequestDoes

\* Nothing changes when nothing changes.
LEMMA BaseStutters == ASSUME BaseInv, UNCHANGED vars PROVE BaseInv'
  <1>1. UNCHANGED <<job, faults, migrated, quote, autoMax, payload, reviews, asked>>
    BY DEF vars
  <1> QED BY <1>1 DEF BaseInv, TypeOK, JobSound, Sound, DraftSound, PayloadSound, QuoteSound,
                      AskedSound, Exists, Own, Past, QuoteIds, Draft, AutoQuote, Send

\* The base is an invariant.
THEOREM QuotesSound == Spec => []BaseInv
  BY BaseInit, StepKinds, BaseStutters, PTL DEF Spec

\* Every variable keeps its type.
THEOREM QuotesTypes == Spec => []TypeOK
  <1>1. BaseInv => TypeOK
    BY DEF BaseInv
  <1> QED BY <1>1, QuotesSound, PTL

\* No quote is put up for sending twice.
THEOREM OneSendJob == Spec => []OneSendJobPerQuote
  <1>1. BaseInv => OneSendJobPerQuote
    <2> SUFFICES ASSUME BaseInv, NEW q \in QuoteIds
                 PROVE  Cardinality({k \in SendJobs :
                              job[k].state # "absent" /\ QuoteOf(k) = q}) <= 1
      BY DEF OneSendJobPerQuote
    <2> DEFINE S == {k \in SendJobs : job[k].state # "absent" /\ QuoteOf(k) = q}
    <2>1. ASSUME NEW k \in S PROVE k = IF autoMax[q[1]] THEN AutoQuote(q[1]) ELSE Send(q)
      <3>1. ASSUME NEW d \in Drafts, k = AutoQuote(d) PROVE autoMax[q[1]] /\ d = q[1]
        <4>1. payload[d] = q /\ job[AutoQuote(d)].state # "absent"
          BY <3>1 DEF QuoteOf, AutoQuote
        <4> QED BY <4>1 DEF BaseInv, PayloadSound
      <3>2. ASSUME NEW i \in QuoteIds, k = Send(i) PROVE ~autoMax[q[1]] /\ i = q
        <4>1. i = q /\ job[Send(i)].state # "absent"
          BY <3>2 DEF QuoteOf, Send
        <4> QED BY <4>1 DEF BaseInv, QuoteSound
      <3> QED BY <3>1, <3>2, QuoteKeys
    <2>2. PICK x : S \subseteq {x}
      BY <2>1
    <2>3. IsFiniteSet({x}) /\ Cardinality({x}) = 1
      BY FS_Singleton
    <2>4. Cardinality(S) <= Cardinality({x}) /\ IsFiniteSet(S)
      BY <2>2, <2>3, FS_Subset
    <2>5. Cardinality(S) \in Nat
      BY <2>4, FS_CardinalityType
    <2> QED BY <2>3, <2>4, <2>5
  <1> QED BY <1>1, QuotesSound, PTL

-----------------------------------------------------------------------------
(* The stranded quotes.                                                    *)

\* A step of draft d adds one token at most, and that at the cost of a fault.
LEMMA DraftTokensStep ==
  ASSUME BaseInv, migrated, NEW d \in Drafts, DraftDoes(d)
  PROVE  \/ DraftTokens' \subseteq DraftTokens
         \/ faults' = faults + 1 /\ \E x : DraftTokens' \subseteq DraftTokens \cup {x}
  <1> DEFINE A == job[Draft(d)].attempts
             x == IF payload'[d] = NoQuote THEN <<d, A>> ELSE <<d, A + 1>>
  <1>0. A \in Nat /\ PayloadSound(d) /\ DraftSound(d)
    BY DraftRow, ExecutionAssumption
  <1>1. ASSUME NEW e \in Drafts, e # d
        PROVE  payload'[e] = payload[e] /\ job'[Draft(e)] = job[Draft(e)]
    BY <1>1, QuoteKeys DEF DraftDoes, Turn, BaseInv, TypeOK
  <1>2. ASSUME NEW n \in Int, FailedExecution(d, n)'
        PROVE  FailedExecution(d, n) \/ (n = A /\ faults' = faults + 1)
    BY <1>2, <1>0 DEF FailedExecution, DraftDoes, Outcome
  <1>3. payload[d] # NoQuote =>
           /\ payload'[d] = payload[d] /\ payload[d][2] \in Nat /\ payload[d][2] <= A
    <2>1. payload[d] # NoQuote =>
             payload[d] \in QuoteIds /\ payload[d][1] = d /\ Exists(payload[d])
      BY <1>0 DEF PayloadSound
    <2>2. payload[d] # NoQuote => payload[d][2] \in Nat /\ payload[d][2] <= A
      BY <1>0, <2>1, Ids, ExecutionAssumption DEF DraftSound
    <2> QED BY <2>2 DEF DraftDoes
  <1>4. payload[d] = NoQuote /\ payload'[d] # NoQuote =>
           payload'[d] = <<d, A>> /\ (FailedExecution(d, A)' => faults' = faults + 1)
    <2> SUFFICES ASSUME payload[d] = NoQuote, payload'[d] # NoQuote
                 PROVE  /\ payload'[d] = <<d, A>>
                        /\ FailedExecution(d, A)' => faults' = faults + 1
      OBVIOUS
    <2>1. payload' = [payload EXCEPT ![d] = Own(d)] /\ job'[Draft(d)].attempts = A
          /\ job'[Draft(d)].state # "done"
      BY DEF DraftDoes
    <2>2. payload'[d] = <<d, A>>
      BY <2>1 DEF Own, BaseInv, TypeOK
    <2>3. FailedExecution(d, A)' => faults' = faults + 1
      BY <1>0, <2>1 DEF FailedExecution, DraftDoes, Outcome
    <2> QED BY <2>2, <2>3
  <1>5. ASSUME NEW q \in DraftTokens', q \notin DraftTokens
        PROVE  faults' = faults + 1 /\ q = x
    <2>1. /\ q \in Drafts \X (1 .. MaxAttempts + 1) /\ q = <<q[1], q[2]>>
          /\ q[1] \in Drafts /\ q[2] \in Nat
      BY <1>5, ExecutionAssumption DEF DraftTokens
    <2>2. q[1] = d
      <3> SUFFICES ASSUME q[1] # d PROVE FALSE
        OBVIOUS
      <3>1. /\ payload'[q[1]] = payload[q[1]]
            /\ \A n \in Int : FailedExecution(q[1], n)' <=> FailedExecution(q[1], n)
        BY <1>1, <2>1 DEF FailedExecution
      <3> QED BY <1>5, <2>1, <3>1 DEF DraftTokens
    <2>3. CASE payload'[d] = NoQuote
      <3>1. payload[d] = NoQuote
        BY <1>3, <2>3
      <3>2. FailedExecution(d, q[2])' /\ ~FailedExecution(d, q[2])
        BY <1>5, <2>1, <2>2, <2>3, <3>1 DEF DraftTokens
      <3> QED BY <1>2, <2>1, <2>2, <2>3, <3>2
    <2>4. CASE payload'[d] # NoQuote
      <3> DEFINE m == payload'[d][2]
      <3>1. /\ m \in Nat /\ m <= A
            /\ \/ q[2] < m /\ FailedExecution(d, q[2])'
               \/ q[2] > m /\ FailedExecution(d, q[2] - 1)'
        BY <1>0, <1>3, <1>4, <1>5, <2>2, <2>4 DEF DraftTokens
      <3>2. CASE payload[d] = NoQuote
        <4>1. m = A /\ (FailedExecution(d, A)' => faults' = faults + 1)
          BY <1>4, <2>4, <3>2
        <4>2. ~FailedExecution(d, q[2])
          BY <1>5, <2>1, <2>2, <3>2 DEF DraftTokens
        <4>3. q[2] > m /\ FailedExecution(d, q[2] - 1)'
          <5>1. ASSUME q[2] < m, FailedExecution(d, q[2])' PROVE FALSE
            BY <1>2, <2>1, <4>1, <4>2, <5>1
          <5> QED BY <3>1, <5>1
        <4>4. q[2] - 1 = A
          <5>1. q[2] - 1 \in Int /\ q[2] - 1 >= A
            BY <1>0, <2>1, <4>1, <4>3
          <5>2. job'[Draft(d)].attempts = A
            BY <2>4, <3>2 DEF DraftDoes
          <5>3. q[2] - 1 <= A
            BY <1>0, <4>3, <5>1, <5>2 DEF FailedExecution
          <5> QED BY <1>0, <5>1, <5>3
        <4>5. q[2] = A + 1 /\ faults' = faults + 1
          <5>1. q[2] = A + 1
            BY <1>0, <2>1, <4>4
          <5>2. FailedExecution(d, q[2] - 1)'
            BY <4>3
          <5>3. job'[Draft(d)].attempts = A
            BY <2>4, <3>2 DEF DraftDoes
          <5>4. FailedExecution(d, A)'
            BY <1>0, <2>1, <4>4, <5>2, <5>3 DEF FailedExecution
          <5> QED BY <4>1, <5>1, <5>4
        <4>6. q = x
          BY <2>1, <2>2, <2>4, <4>5
        <4> QED BY <4>5, <4>6
      <3>3. CASE payload[d] # NoQuote
        <4>1. m = payload[d][2]
          BY <1>3, <3>3
        <4>2. /\ ~(q[2] < m /\ FailedExecution(d, q[2]))
              /\ ~(q[2] > m /\ FailedExecution(d, q[2] - 1))
          BY <1>5, <2>1, <2>2, <3>3, <4>1 DEF DraftTokens
        <4>3. ~(q[2] < m /\ FailedExecution(d, q[2])')
          BY <1>0, <1>2, <2>1, <3>1, <4>2
        <4>4. q[2] > m /\ FailedExecution(d, q[2] - 1)' /\ q[2] - 1 \in Int
          BY <2>1, <3>1, <4>3
        <4>5. q[2] - 1 = A /\ faults' = faults + 1
          BY <1>2, <4>2, <4>4
        <4>6. q[2] = A + 1
          BY <1>0, <2>1, <4>5
        <4>7. q = x
          BY <2>1, <2>2, <2>4, <4>6
        <4> QED BY <4>5, <4>7
      <3> QED BY <3>2, <3>3
    <2> QED BY <2>3, <2>4
  <1> HIDE DEF x
  <1>6. DraftTokens' \subseteq DraftTokens \cup {x}
    BY <1>5
  <1> QED BY <1>5, <1>6

\* Where no draft moves, no draft's token comes.
LEMMA DraftTokensStay ==
  ASSUME payload' = payload, \A d \in Drafts : job'[Draft(d)] = job[Draft(d)]
  PROVE  DraftTokens' \subseteq DraftTokens
  <1> SUFFICES ASSUME NEW q \in DraftTokens' PROVE q \in DraftTokens
    OBVIOUS
  <1>1. q \in Drafts \X (1 .. MaxAttempts + 1) /\ q[1] \in Drafts
    BY DEF DraftTokens
  <1>2. \A n : FailedExecution(q[1], n)' <=> FailedExecution(q[1], n)
    BY <1>1 DEF FailedExecution
  <1> QED BY <1>1, <1>2 DEF DraftTokens

\* Every step pays for the tokens that it adds.
LEMMA StrandedStep ==
  ASSUME BaseInv, StrandedInv, [Next]_vars
  PROVE  StrandedInv'
  <1>0. TypeOK /\ faults \in Nat
    BY ExecutionAssumption DEF BaseInv, TypeOK
  <1>1. CASE UNCHANGED vars
    <2>1. UNCHANGED <<job, faults, migrated, quote, autoMax, payload, asked>>
      BY <1>1 DEF vars
    <2>2. DraftTokens' = DraftTokens
      BY <2>1 DEF DraftTokens, FailedExecution, Draft
    <2>3. RequestTokens' = RequestTokens
      BY <2>1 DEF RequestTokens, Send, QuoteIds
    <2> QED BY <2>1, <2>2, <2>3 DEF StrandedInv, QuoteTokens
  <1> SUFFICES ASSUME Next, migrated'
               PROVE  IsFiniteSet(QuoteTokens') /\ Cardinality(QuoteTokens') <= faults'
    BY <1>1 DEF StrandedInv
  <1>2. ASSUME migrated, faults' \in 0 .. MaxFaults, faults <= faults',
               \/ QuoteTokens' \subseteq QuoteTokens
               \/ faults' = faults + 1 /\ \E x : QuoteTokens' \subseteq QuoteTokens \cup {x}
        PROVE  IsFiniteSet(QuoteTokens') /\ Cardinality(QuoteTokens') <= faults'
    <2>1. IsFiniteSet(QuoteTokens) /\ Cardinality(QuoteTokens) <= faults /\ faults' \in Nat
      BY <1>2, ExecutionAssumption DEF StrandedInv
    <2> HIDE DEF QuoteTokens
    <2> QED BY <1>0, <1>2, <2>1, FaultsCount
  <1>3. ASSUME NEW d \in Drafts, DraftDoes(d)
        PROVE  IsFiniteSet(QuoteTokens') /\ Cardinality(QuoteTokens') <= faults'
    <2>1. /\ migrated' = migrated /\ autoMax' = autoMax /\ asked' = asked
          /\ faults' \in 0 .. MaxFaults /\ faults <= faults'
      BY <1>3 DEF DraftDoes, settings, Turn
    <2>2. RequestTokens' \subseteq RequestTokens
      <3>1. ASSUME NEW q \in QuoteIds PROVE job'[Send(q)] = job[Send(q)]
        <4>1. PICK i \in {Draft(d), AutoQuote(d), Escalate(d)} : Turn(Draft(d), i)
          BY <1>3 DEF DraftDoes
        <4>2. Send(q) \in Jobs /\ Send(q) # Draft(d) /\ Send(q) # i
          BY QuoteKeys DEF Send, Draft, AutoQuote, Escalate
        <4> QED BY <4>1, <4>2 DEF Turn
      <3>2. \A q \in QuoteIds :
               quote'[q] = "approved" /\ ~autoMax[q[1]] => quote[q] = "approved"
        BY <1>3 DEF DraftDoes
      <3> QED BY <2>1, <3>1, <3>2 DEF RequestTokens
    <2>3. \/ DraftTokens' \subseteq DraftTokens
          \/ faults' = faults + 1 /\ \E x : DraftTokens' \subseteq DraftTokens \cup {x}
      BY <1>3, <2>1, DraftTokensStep
    <2>4. \/ QuoteTokens' \subseteq QuoteTokens
          \/ faults' = faults + 1 /\ \E x : QuoteTokens' \subseteq QuoteTokens \cup {x}
      BY <2>2, <2>3 DEF QuoteTokens
    <2> QED BY <1>2, <2>1, <2>4
  <1>4. ASSUME NEW k \in Jobs, \A d \in Drafts : k # Draft(d), SendDoes(k)
        PROVE  IsFiniteSet(QuoteTokens') /\ Cardinality(QuoteTokens') <= faults'
    <2>1. /\ migrated' = migrated /\ autoMax' = autoMax /\ asked' = asked
          /\ faults' \in 0 .. MaxFaults /\ faults <= faults' /\ payload' = payload
      BY <1>4 DEF SendDoes, settings, Turn
    <2>2. RequestTokens' \subseteq RequestTokens
      <3>1. \A q \in QuoteIds : job'[Send(q)].state = "absent" => job[Send(q)].state = "absent"
        BY <1>4, QuoteKeys DEF SendDoes, Turn
      <3>2. \A q \in QuoteIds : quote'[q] = "approved" => quote[q] = "approved"
        BY <1>4 DEF SendDoes
      <3> QED BY <2>1, <3>1, <3>2 DEF RequestTokens
    <2>3. \A d \in Drafts : job'[Draft(d)] = job[Draft(d)]
      BY <1>4, QuoteKeys DEF SendDoes, Turn
    <2>4. QuoteTokens' \subseteq QuoteTokens
      BY <2>1, <2>2, <2>3, DraftTokensStay DEF QuoteTokens
    <2> QED BY <1>2, <2>1, <2>4
  <1>5. ASSUME NEW q \in QuoteIds, RequestEffect(q)
        PROVE  IsFiniteSet(QuoteTokens') /\ Cardinality(QuoteTokens') <= faults'
    <2>1. /\ migrated' = migrated /\ faults' \in 0 .. MaxFaults /\ faults <= faults'
          /\ payload' = payload
          /\ RequestTokens' \subseteq
                RequestTokens \cup (IF faults' = faults + 1 THEN {q} ELSE {})
      BY <1>5 DEF RequestEffect, settings
    <2>2. \A d \in Drafts : job'[Draft(d)] = job[Draft(d)]
      BY <1>5, QuoteKeys DEF RequestEffect, SendsOne
    <2>3. DraftTokens' \subseteq DraftTokens
      BY <2>1, <2>2, DraftTokensStay
    <2>4. \/ QuoteTokens' \subseteq QuoteTokens
          \/ faults' = faults + 1 /\ QuoteTokens' \subseteq QuoteTokens \cup {q}
      BY <2>1, <2>3 DEF QuoteTokens
    <2> QED BY <1>2, <2>1, <2>4
  <1> QED BY <1>3, <1>4, <1>5, StepKinds

\* A stranded quote has a token.
LEMMA StrandedAreTokens ==
  ASSUME BaseInv
  PROVE  Stranded \subseteq QuoteTokens
  <1> SUFFICES ASSUME NEW q \in Stranded PROVE q \in QuoteTokens
    OBVIOUS
  <1> DEFINE d == q[1]
             n == q[2]
  <1>0. q \in QuoteIds /\ d \in Drafts /\ n \in 1 .. MaxAttempts /\ q = <<d, n>> /\ Exists(q)
    BY Ids DEF Stranded, Exists
  <1>1. /\ DraftSound(d) /\ PayloadSound(d) /\ Sound(job[Draft(d)])
        /\ job[Draft(d)].attempts \in Nat /\ n \in Nat /\ n >= 1
        /\ q \in Drafts \X (1 .. MaxAttempts + 1)
        /\ job[Draft(d)].at \in StepsOf(Draft(d)) \cup {"idle"}
        /\ QuoteSound(q)
    BY <1>0, DraftRow, ExecutionAssumption DEF BaseInv, JobSound
  <1>2. /\ n < job[Draft(d)].attempts \/ n = job[Draft(d)].attempts
        /\ n = job[Draft(d)].attempts =>
              q = Own(d) /\ job[Draft(d)].at \notin {"load", "insert"}
    BY <1>0, <1>1 DEF DraftSound, Own
  <1>3. CASE quote[q] = "approved" /\ ~autoMax[d]
    <2>1. job[Send(q)].state = "absent"
      BY <1>0, <1>3, QuoteKeys DEF Stranded, QuoteOf, Send
    <2>2. \A r \in Approvals : ~(asked[r].quote = q /\ asked[r].at = "enqueue")
      BY <1>3 DEF Stranded
    <2> QED BY <1>0, <1>3, <2>1, <2>2 DEF QuoteTokens, RequestTokens
  <1>4. CASE quote[q] = "approved" /\ autoMax[d]
    <2>1. q # payload[d]
      <3> SUFFICES ASSUME q = payload[d] PROVE FALSE
        OBVIOUS
      <3>1. job[AutoQuote(d)].state # "absent" /\ AutoQuote(d) \in SendJobs
        BY <1>0, <1>1, Ids, QuoteKeys DEF PayloadSound
      <3>2. QuoteOf(AutoQuote(d)) = q
        BY DEF QuoteOf, AutoQuote
      <3> QED BY <1>4, <3>1, <3>2 DEF Stranded
    <2>2. CASE payload[d] = NoQuote
      <3>1. FailedExecution(d, n)
        <4>1. CASE n = job[Draft(d)].attempts
          <5>1. ~Past(d) /\ job[Draft(d)].at # "autoSend" /\ job[Draft(d)].at # "task"
            BY <1>0, <1>1, <1>2, <1>4, <2>2, <4>1 DEF DraftSound, Stranded
          <5>2. job[Draft(d)].at = "idle" /\ job[Draft(d)].state # "done"
            BY <1>0, <1>2, <4>1, <5>1, DraftRow, <1>1 DEF Past
          <5> QED BY <1>1, <4>1, <5>2 DEF FailedExecution
        <4> QED BY <1>1, <1>2, <4>1 DEF FailedExecution
      <3> QED BY <1>0, <1>1, <2>2, <3>1 DEF QuoteTokens, DraftTokens
    <2>3. CASE payload[d] # NoQuote
      <3> DEFINE m == payload[d][2]
      <3>1. /\ payload[d] = <<d, m>> /\ m \in 1 .. MaxAttempts /\ m # n
            /\ m <= job[Draft(d)].attempts /\ m \in Nat /\ m >= 1
        <4>1. payload[d] \in QuoteIds /\ payload[d][1] = d /\ Exists(payload[d])
          BY <1>1, <2>3 DEF PayloadSound
        <4>2. payload[d] = <<d, m>> /\ m \in 1 .. MaxAttempts
          BY <4>1, Ids
        <4>3. m < job[Draft(d)].attempts \/ m = job[Draft(d)].attempts
          BY <1>1, <4>1, <4>2 DEF DraftSound
        <4> QED BY <1>0, <1>1, <2>1, <4>2, <4>3, ExecutionAssumption
      <3>2. CASE n < m
        <4>1. FailedExecution(d, n)
          BY <1>1, <3>1, <3>2 DEF FailedExecution
        <4> QED BY <1>0, <1>1, <2>3, <3>2, <4>1 DEF QuoteTokens, DraftTokens
      <3>3. CASE n > m
        <4>1. FailedExecution(d, n - 1)
          <5>1. 1 <= n - 1 /\ n - 1 < job[Draft(d)].attempts
            BY <1>1, <1>2, <3>1, <3>3
          <5> QED BY <5>1 DEF FailedExecution
        <4> QED BY <1>0, <1>1, <2>3, <3>3, <4>1 DEF QuoteTokens, DraftTokens
      <3> QED BY <1>1, <3>1, <3>2, <3>3
    <2> QED BY <2>2, <2>3
  <1>5. CASE quote[q] = "awaiting_review"
    <2>1. ~autoMax[d] /\ payload[d] = NoQuote /\ q \notin reviews
      BY <1>1, <1>5 DEF QuoteSound, PayloadSound, Stranded
    <2>2. FailedExecution(d, n)
      <3>1. CASE n = job[Draft(d)].attempts
        <4>1. ~Past(d) /\ job[Draft(d)].at # "autoSend" /\ job[Draft(d)].at # "task"
          BY <1>0, <1>1, <1>2, <1>5, <2>1, <3>1 DEF DraftSound, Stranded
        <4>2. job[Draft(d)].at = "idle" /\ job[Draft(d)].state # "done"
          BY <1>0, <1>1, <1>2, <3>1, <4>1, DraftRow DEF Past
        <4> QED BY <1>1, <3>1, <4>2 DEF FailedExecution
      <3> QED BY <1>1, <1>2, <3>1 DEF FailedExecution
    <2> QED BY <1>0, <1>1, <2>1, <2>2 DEF QuoteTokens, DraftTokens
  <1> QED BY <1>3, <1>4, <1>5 DEF Stranded

\* Each quote that is approved with nobody to send it, or under review without its
\* task, cost a fault.
THEOREM StrandedCostFaults == Spec => []StrandedNeedsFault
  <1>1. BaseInv /\ StrandedInv => StrandedNeedsFault
    <2> SUFFICES ASSUME BaseInv, StrandedInv PROVE Cardinality(Stranded) <= faults
      BY DEF StrandedNeedsFault
    <2>0. faults \in Nat
      BY ExecutionAssumption DEF BaseInv, TypeOK
    <2>1. CASE migrated
      <3>1. IsFiniteSet(QuoteTokens) /\ Cardinality(QuoteTokens) <= faults
        BY <2>1 DEF StrandedInv
      <3>2. Cardinality(Stranded) <= Cardinality(QuoteTokens) /\ IsFiniteSet(Stranded)
        BY <3>1, StrandedAreTokens, FS_Subset
      <3> QED BY <2>0, <3>1, <3>2, FS_CardinalityType
    <2>2. CASE ~migrated
      <3>1. Stranded = {}
        BY <2>2 DEF BaseInv, Exists, Stranded
      <3> QED BY <2>0, <3>1, FS_EmptySet
    <2> QED BY <2>1, <2>2
  <1>2. Init => StrandedInv
    <2> SUFFICES ASSUME Init PROVE StrandedInv
      OBVIOUS
    <2>1. \A d \in Drafts : job[Draft(d)] = [state |-> "ready", attempts |-> 0, at |-> "idle"]
      BY QuoteKeys DEF Init, Ready, Absent
    <2>2. DraftTokens = {}
      <3>1. \A d \in Drafts, n \in Int : ~FailedExecution(d, n)
        BY <2>1 DEF FailedExecution
      <3>2. \A q \in DraftTokens : q[1] \in Drafts /\ q[2] \in Int /\ q[2] - 1 \in Int
        BY ExecutionAssumption DEF DraftTokens
      <3> QED BY <3>1, <3>2 DEF DraftTokens
    <2>3. RequestTokens = {}
      BY DEF Init, RequestTokens
    <2> QED BY <2>2, <2>3, FS_EmptySet DEF StrandedInv, QuoteTokens, Init
  <1>3. Spec => []StrandedInv
    BY <1>2, StrandedStep, QuotesSound, PTL DEF Spec
  <1> QED BY <1>1, <1>3, QuotesSound, PTL

-----------------------------------------------------------------------------
(* The life cycle.                                                         *)

\* The row of every job makes a move, or stays.
LEMMA EveryRowMoves ==
  ASSUME BaseInv, Next, NEW k \in Jobs
  PROVE  RowMoves(job[k], job'[k])
  <1>0. Ready.state = "ready" /\ Ready.attempts = 0
    BY DEF Ready, Absent
  <1>1. job[k].state = "absent" => job[k].attempts = 0
    BY DEF BaseInv, JobSound, Sound
  <1>2. ASSUME \/ job'[k] = job[k]
               \/ job[k].state = "absent" /\ job'[k] = Ready
        PROVE  RowMoves(job[k], job'[k])
    BY <1>0, <1>1, <1>2 DEF RowMoves
  <1>3. ASSUME NEW j \in Jobs, NEW i, Turn(j, i)
        PROVE  RowMoves(job[k], job'[k])
    <2>1. CASE k = j
      BY <1>3, <2>1 DEF Turn
    <2>2. CASE k # j
      BY <1>2, <1>3, <2>2 DEF Turn
    <2> QED BY <2>1, <2>2
  <1>4. ASSUME NEW q \in QuoteIds, RequestEffect(q)
        PROVE  RowMoves(job[k], job'[k])
    BY <1>2, <1>4 DEF RequestEffect, SendsOne
  <1> QED BY <1>3, <1>4, StepKinds, QuoteKeys DEF DraftDoes, SendDoes

\* A move of a row is one of the life cycle.
LEMMA MovesAreLifecycle ==
  ASSUME TypeOK, TypeOK', NEW k \in Jobs, RowMoves(job[k], job'[k])
  PROVE  \/ Lifecycle!Insert(k) \/ Lifecycle!Run(k) \/ Lifecycle!Succeed(k)
         \/ Lifecycle!Retry(k) \/ Lifecycle!Bury(k) \/ Lifecycle!Stay(k)
  <1> DEFINE status == [i \in Jobs |-> Status(i)]
             attempts == [i \in Jobs |-> job[i].attempts]
  <1>0. /\ job[k].state \in JobStates /\ job'[k].state \in JobStates
        /\ job[k].attempts \in Nat /\ job'[k].attempts \in Nat /\ MaxAttempts \in Nat
    BY ExecutionAssumption DEF TypeOK, JobRows
  <1>1. /\ status[k] = Status(k) /\ status'[k] = Status(k)'
        /\ attempts[k] = job[k].attempts /\ attempts'[k] = job'[k].attempts
    OBVIOUS
  <1>2. /\ job[k].state = "absent" => Status(k) = "absent"
        /\ job[k].state = "ready" => Status(k) \in {"queued", "retry"}
        /\ job[k].state = "running" => Status(k) = "running"
    BY DEF Status
  <1>3. /\ job'[k].state = "ready" =>
              Status(k)' = IF job'[k].attempts = 0 THEN "queued" ELSE "retry"
        /\ job'[k].state = "running" => Status(k)' = "running"
        /\ job'[k].state = "done" => Status(k)' = "succeeded"
        /\ job'[k].state = "dead" => Status(k)' = "dead_letter"
    BY DEF Status
  <1>4. CASE job'[k].state = job[k].state /\ job'[k].attempts = job[k].attempts
    <2>1. Status(k)' = Status(k)
      BY <1>4 DEF Status
    <2> QED BY <1>1, <1>4, <2>1 DEF Lifecycle!Stay
  <1>5. CASE /\ job[k].state = "absent" /\ job'[k].state = "ready"
             /\ job[k].attempts = 0 /\ job'[k].attempts = 0
    BY <1>1, <1>2, <1>3, <1>5 DEF Lifecycle!Insert, Lifecycle!Moves
  <1>6. CASE /\ job[k].state = "ready" /\ job'[k].state = "running"
             /\ job[k].attempts < MaxAttempts /\ job'[k].attempts = job[k].attempts + 1
    BY <1>1, <1>2, <1>3, <1>6 DEF Lifecycle!Run, Lifecycle!Moves
  <1>7. CASE /\ job[k].state = "running" /\ job'[k].state \in {"done", "dead"}
             /\ job'[k].attempts = job[k].attempts
    BY <1>1, <1>2, <1>3, <1>7 DEF Lifecycle!Succeed, Lifecycle!Bury, Lifecycle!Moves
  <1>8. CASE /\ job[k].state = "running" /\ job'[k].state = "ready"
             /\ job[k].attempts \in 1 .. MaxAttempts - 1 /\ job'[k].attempts = job[k].attempts
    <2>1. Status(k)' = "retry" /\ job[k].attempts < MaxAttempts
      BY <1>0, <1>3, <1>8
    <2> QED BY <1>1, <1>2, <1>8, <2>1 DEF Lifecycle!Retry, Lifecycle!Moves
  <1> QED BY <1>4, <1>5, <1>6, <1>7, <1>8 DEF RowMoves

\* Every step takes every job one move further in the life cycle that the queue
\* implements, or leaves it where it is.
THEOREM QuotesFollowLifecycle == Spec => JobsFollowLifecycle
  <1>1. BaseInv /\ [Next]_vars => [UNCHANGED job \/ Lifecycle!Next]_vars
    <2>1. ASSUME BaseInv, Next PROVE Lifecycle!Next
      BY <2>1, StepKinds, EveryRowMoves, MovesAreLifecycle DEF BaseInv, Lifecycle!Next
    <2> QED BY <2>1
  <1> QED BY <1>1, QuotesSound, PTL DEF Spec, JobsFollowLifecycle
=============================================================================
