------------------------------ MODULE JobQueue ------------------------------
(***************************************************************************)
(* One queue of public.queue_jobs and the worker processes that consume    *)
(* it: the queue RPCs of supabase/schema.sql and of migration              *)
(* 0004_hardening.sql, the BaseWorker loop of apps/workers/src/base.py, the *)
(* reaper of main.py, and the RPC wrapper of supabase_client.py, whose      *)
(* time-out abandons a call without cancelling the thread that makes it.    *)
(*                                                                          *)
(* An RPC is one SQL statement, so it is one atomic action.  Time is        *)
(* abstracted to what the statements compare: whether available_at has      *)
(* passed (due) and how old locked_at is (lockAge).  What a handler does is *)
(* abstracted to how it ends.                                               *)
(***************************************************************************)
EXTENDS Naturals, FiniteSets

CONSTANTS
    Jobs,             \* idempotency keys; the unique index allows one row each
    Workers,          \* processes that run this queue's BaseWorker
    NoWorker,         \* locked_by is null
    Priority,         \* queue_jobs.priority of each job (smaller goes first)
    MaxAttempts,      \* queue_jobs.max_attempts
    BatchSize,        \* worker_claim_batch_size
    MaxConcurrency,   \* BaseWorker.max_concurrency
    MaxCrashes,       \* bound on how often a worker process dies
    PromptHandlers    \* TRUE: no claim's work outlives the reaper's threshold

ASSUME MaxAttemptsAssumption == MaxAttempts \in Nat \ {0}
ASSUME WorkersAssumption == NoWorker \notin Workers
ASSUME PriorityAssumption == Priority \in [Jobs -> Nat]
ASSUME LimitsAssumption == /\ BatchSize \in Nat \ {0}
                           /\ MaxConcurrency \in Nat \ {0}
                           /\ MaxCrashes \in Nat
                           /\ PromptHandlers \in BOOLEAN

\* "absent" is the key that has no row yet.
Status == {"absent", "queued", "running", "retry", "succeeded", "dead_letter"}
Finished == {"succeeded", "dead_letter"}

\* How old locked_at is: younger than the claim's p_lock_timeout (5 minutes),
\* older than it, older than the reaper's p_stale_threshold (10 minutes).
LockAges == 0 .. 2
Stale == 2

\* How handle() ends: it returns, raises RetryableError or any other
\* exception, or raises PermanentError.
Outcomes == {"ok", "retry", "dead"}
Phases == {"waiting", "handling"} \cup Outcomes

Attempts == 0 .. MaxAttempts
\* A _process_one task: waiting for the semaphore, in handle(), or with the
\* outcome it is reporting.  attempt is Job.attempts, copied by the claim.
Task == [worker : Workers, job : Jobs, attempt : Attempts, phase : Phases]
\* A complete_queue_job or fail_queue_job call its caller no longer awaits.
Report == [job : Jobs, attempt : Attempts, outcome : Outcomes]

VARIABLES
    status,       \* queue_jobs.status
    attempts,     \* queue_jobs.attempts
    due,          \* available_at <= now()
    lockedBy,     \* queue_jobs.locked_by
    lockAge,      \* age of locked_at, 0 when it is null
    up,           \* the worker processes that are alive
    tasks,        \* their _process_one tasks
    lateReports,  \* abandoned report calls that may still reach the database
    lateClaims,   \* workers with an abandoned claim call, likewise
    crashes,      \* how many processes died so far
    started,      \* history: the attempts whose handle() was entered, per job
    overtaken     \* history: how often the reaper took a job's row from an execution
                  \* that was at work

rows == <<status, attempts, due, lockedBy, lockAge>>
vars == <<status, attempts, due, lockedBy, lockAge,
          up, tasks, lateReports, lateClaims, crashes, started, overtaken>>

Init ==
    /\ status = [j \in Jobs |-> "absent"]
    /\ attempts = [j \in Jobs |-> 0]
    /\ due = [j \in Jobs |-> FALSE]
    /\ lockedBy = [j \in Jobs |-> NoWorker]
    /\ lockAge = [j \in Jobs |-> 0]
    /\ up = Workers
    /\ tasks = {}
    /\ lateReports = {}
    /\ lateClaims = {}
    /\ crashes = 0
    /\ started = [j \in Jobs |-> {}]
    /\ overtaken = [j \in Jobs |-> 0]

-----------------------------------------------------------------------------
(* The queue RPCs, as the relation each has with the table.                *)

\* Mutant: an upsert that writes the row afresh.
EnqueueRowUpserts(j, isDue) ==
    /\ status' = [status EXCEPT ![j] = "queued"]
    /\ attempts' = [attempts EXCEPT ![j] = 0]
    /\ due' = [due EXCEPT ![j] = isDue]
    /\ lockedBy' = [lockedBy EXCEPT ![j] = NoWorker]
    /\ lockAge' = [lockAge EXCEPT ![j] = 0]

\* enqueue_job: the insert, or on a conflict on the key the update that
\* changes nothing, whatever became of the row since.
EnqueueRow(j, isDue) ==
    IF status[j] = "absent"
    THEN /\ status' = [status EXCEPT ![j] = "queued"]
         /\ due' = [due EXCEPT ![j] = isDue]
         /\ UNCHANGED <<attempts, lockedBy, lockAge>>
    ELSE UNCHANGED rows

\* Mutant: a claim that takes over running rows whose lock timed out.
ClaimableTakesOver ==
    {j \in Jobs : /\ status[j] \in {"queued", "retry", "running"}
                  /\ due[j]
                  /\ lockedBy[j] = NoWorker \/ lockAge[j] > 0}

\* The candidates of claim_queue_jobs.
Claimable ==
    {j \in Jobs : /\ status[j] \in {"queued", "retry"}
                  /\ due[j]
                  /\ lockedBy[j] = NoWorker \/ lockAge[j] > 0}

\* What "order by priority ... limit" can choose.  The order among equal
\* priorities (available_at, created_at) is left open.
Batches ==
    {B \in SUBSET Claimable :
        /\ B # {}
        /\ Cardinality(B) <= BatchSize
        /\ Cardinality(B) < BatchSize => B = Claimable
        /\ \A j \in B, k \in Claimable \ B : Priority[j] <= Priority[k]}

\* claim_queue_jobs for worker w, choosing the rows B.
ClaimRows(w, B) ==
    /\ status' = [j \in Jobs |-> IF j \in B THEN "running" ELSE status[j]]
    /\ attempts' = [j \in Jobs |-> IF j \in B THEN attempts[j] + 1 ELSE attempts[j]]
    /\ lockedBy' = [j \in Jobs |-> IF j \in B THEN w ELSE lockedBy[j]]
    /\ lockAge' = [j \in Jobs |-> IF j \in B THEN 0 ELSE lockAge[j]]
    /\ UNCHANGED due

\* Mutant: the lock is left on the row.
CompleteRowKeepsLock(j) ==
    /\ status' = [status EXCEPT ![j] = "succeeded"]
    /\ UNCHANGED <<attempts, due, lockedBy, lockAge>>

\* complete_queue_job: the row is found by its id alone.
CompleteRow(j) ==
    /\ status' = [status EXCEPT ![j] = "succeeded"]
    /\ lockedBy' = [lockedBy EXCEPT ![j] = NoWorker]
    /\ lockAge' = [lockAge EXCEPT ![j] = 0]
    /\ UNCHANGED <<attempts, due>>

\* Mutant: attempts > max_attempts.
FailRowOneMore(j, forceDead) ==
    LET bury == forceDead \/ attempts[j] > MaxAttempts
    IN /\ status' = [status EXCEPT ![j] = IF bury THEN "dead_letter" ELSE "retry"]
       /\ due' = [due EXCEPT ![j] = IF bury THEN @ ELSE FALSE]
       /\ lockedBy' = [lockedBy EXCEPT ![j] = NoWorker]
       /\ lockAge' = [lockAge EXCEPT ![j] = 0]
       /\ UNCHANGED attempts

\* fail_queue_job of migration 0004: by id alone too.  A retry becomes
\* available after a backoff of 30 seconds or more.
FailRow(j, forceDead) ==
    LET bury == forceDead \/ attempts[j] >= MaxAttempts
    IN /\ status' = [status EXCEPT ![j] = IF bury THEN "dead_letter" ELSE "retry"]
       /\ due' = [due EXCEPT ![j] = IF bury THEN @ ELSE FALSE]
       /\ lockedBy' = [lockedBy EXCEPT ![j] = NoWorker]
       /\ lockAge' = [lockAge EXCEPT ![j] = 0]
       /\ UNCHANGED attempts

\* The call that _process_one makes for each way handle() can end.
ReportRow(j, outcome) ==
    \/ outcome = "ok" /\ CompleteRow(j)
    \/ outcome = "retry" /\ FailRow(j, FALSE)
    \/ outcome = "dead" /\ FailRow(j, TRUE)

\* Mutant: only rows with an attempt left are looked at.
StaleRowsWithBudget ==
    {j \in Jobs : status[j] = "running" /\ lockAge[j] = Stale /\ attempts[j] < MaxAttempts}

\* The rows reap_stale_running_jobs selects.
StaleRows == {j \in Jobs : status[j] = "running" /\ lockAge[j] = Stale}

\* Mutant: the budget is not looked at.
ReapRowsToRetry(R) ==
    /\ status' = [j \in Jobs |-> IF j \in R THEN "retry" ELSE status[j]]
    /\ due' = [j \in Jobs |-> j \in R \/ due[j]]
    /\ lockedBy' = [j \in Jobs |-> IF j \in R THEN NoWorker ELSE lockedBy[j]]
    /\ lockAge' = [j \in Jobs |-> IF j \in R THEN 0 ELSE lockAge[j]]
    /\ UNCHANGED attempts

\* reap_stale_running_jobs: every stale row in one statement.
ReapRows(R) ==
    /\ status' = [j \in Jobs |-> IF j \notin R THEN status[j]
                                 ELSE IF attempts[j] >= MaxAttempts
                                      THEN "dead_letter" ELSE "retry"]
    /\ due' = [j \in Jobs |-> j \in R \/ due[j]]
    /\ lockedBy' = [j \in Jobs |-> IF j \in R THEN NoWorker ELSE lockedBy[j]]
    /\ lockAge' = [j \in Jobs |-> IF j \in R THEN 0 ELSE lockAge[j]]
    /\ UNCHANGED attempts

-----------------------------------------------------------------------------
(* Producers and time.                                                     *)

\* A producer calls enqueue_job, with p_available_at now or later; a repeated
\* delivery of what it reacts to makes it call again with the same key.
Enqueue(j) ==
    /\ \E isDue \in BOOLEAN : EnqueueRow(j, isDue)
    /\ UNCHANGED <<up, tasks, lateReports, lateClaims, crashes, started, overtaken>>

\* available_at passes.
BecomeDue(j) ==
    /\ status[j] \in {"queued", "retry"}
    /\ ~due[j]
    /\ due' = [due EXCEPT ![j] = TRUE]
    /\ UNCHANGED <<status, attempts, lockedBy, lockAge,
                   up, tasks, lateReports, lateClaims, crashes, started, overtaken>>

\* The work some process or abandoned call still does for the job.
Working(j) ==
    \/ \E t \in tasks : t.job = j
    \/ \E r \in lateReports : r.job = j

\* The lock grows older.  Nothing in the code bounds a handler's duration, or
\* its wait behind the batch's semaphore, by the reaper's threshold;
\* PromptHandlers is that bound as an assumption of the deployment.
LockAgesOn(j) ==
    /\ lockedBy[j] # NoWorker
    /\ lockAge[j] < Stale
    /\ PromptHandlers /\ lockAge[j] + 1 = Stale => ~Working(j)
    /\ lockAge' = [lockAge EXCEPT ![j] = @ + 1]
    /\ UNCHANGED <<status, attempts, due, lockedBy,
                   up, tasks, lateReports, lateClaims, crashes, started, overtaken>>

-----------------------------------------------------------------------------
(* BaseWorker.run and _process_one.                                        *)

\* The loop claims again only when gather() has seen every task of the last
\* batch end.
Polling(w) == w \in up /\ \A t \in tasks : t.worker # w

\* _claim returns: one _process_one task per row.
Claim(w) ==
    /\ Polling(w)
    /\ \E B \in Batches :
          /\ ClaimRows(w, B)
          /\ tasks' = tasks \cup {[worker |-> w, job |-> j, attempt |-> attempts[j] + 1,
                                   phase |-> "waiting"] : j \in B}
    /\ UNCHANGED <<up, lateReports, lateClaims, crashes, started, overtaken>>

\* rpc() times out on the claim: run() logs, sleeps and polls again, while the
\* thread that makes the call lives on.
ClaimTimesOut(w) ==
    /\ Polling(w)
    /\ w \notin lateClaims
    /\ lateClaims' = lateClaims \cup {w}
    /\ UNCHANGED <<rows, up, tasks, lateReports, crashes, started, overtaken>>

\* The abandoned claim runs after all: rows nobody will work on are running.
LateClaim(w) ==
    /\ w \in lateClaims
    /\ \E B \in Batches : ClaimRows(w, B)
    /\ lateClaims' = lateClaims \ {w}
    /\ UNCHANGED <<up, tasks, lateReports, crashes, started, overtaken>>

\* The abandoned claim fails, or finds nothing.
LateClaimLost(w) ==
    /\ w \in lateClaims
    /\ lateClaims' = lateClaims \ {w}
    /\ UNCHANGED <<rows, up, tasks, lateReports, crashes, started, overtaken>>

\* Inside "async with self._semaphore": the handler and the report.
InSemaphore(w) == {t \in tasks : t.worker = w /\ t.phase # "waiting"}

\* _process_one takes the semaphore and enters handle().
Start(t) ==
    /\ t.phase = "waiting"
    /\ Cardinality(InSemaphore(t.worker)) < MaxConcurrency
    /\ tasks' = (tasks \ {t}) \cup {[t EXCEPT !.phase = "handling"]}
    /\ started' = [started EXCEPT ![t.job] = @ \cup {t.attempt}]
    /\ UNCHANGED <<rows, up, lateReports, lateClaims, crashes, overtaken>>

\* handle() returns or raises; the task calls _complete or _fail.
HandlerEnds(t) ==
    /\ t.phase = "handling"
    /\ \E o \in Outcomes : tasks' = (tasks \ {t}) \cup {[t EXCEPT !.phase = o]}
    /\ UNCHANGED <<rows, up, lateReports, lateClaims, crashes, started, overtaken>>

\* The report reaches the database, and the task ends.
ReportDone(t) ==
    /\ t.phase \in Outcomes
    /\ ReportRow(t.job, t.phase)
    /\ tasks' = tasks \ {t}
    /\ UNCHANGED <<up, lateReports, lateClaims, crashes, started, overtaken>>

\* The report of a task, as a call that no longer has a caller.
Abandoned(t) == [job |-> t.job, attempt |-> t.attempt, outcome |-> t.phase]

\* Mutant: a completion that raises is caught with the handler's exceptions and
\* reported as a failure.
ReportTimesOutThenFails(t) ==
    /\ t.phase \in Outcomes
    /\ tasks' = (tasks \ {t}) \cup
                   {[t EXCEPT !.phase = "retry"] : u \in {v \in {t} : v.phase = "ok"}}
    /\ lateReports' = lateReports \cup {Abandoned(t)}
    /\ UNCHANGED <<rows, up, lateClaims, crashes, started, overtaken>>

\* The report raises (most often wait_for's time-out): gather() swallows the
\* exception and the task ends; the call may still be under way.
ReportTimesOut(t) ==
    /\ t.phase \in Outcomes
    /\ tasks' = tasks \ {t}
    /\ lateReports' = lateReports \cup {Abandoned(t)}
    /\ UNCHANGED <<rows, up, lateClaims, crashes, started, overtaken>>

\* The abandoned report reaches the database.
LateReport(r) ==
    /\ ReportRow(r.job, r.outcome)
    /\ lateReports' = lateReports \ {r}
    /\ UNCHANGED <<up, tasks, lateClaims, crashes, started, overtaken>>

\* The abandoned report is lost.
LateReportLost(r) ==
    /\ lateReports' = lateReports \ {r}
    /\ UNCHANGED <<rows, up, tasks, lateClaims, crashes, started, overtaken>>

-----------------------------------------------------------------------------
(* The process: main.py.                                                   *)

\* The attempts of the job that a task or a report under way is still about.
AtWork(j) == {t.attempt : t \in {u \in tasks : u.job = j}}
                \cup {r.attempt : r \in {q \in lateReports : q.job = j}}

\* The reaper task that runs beside the workers in every process.
Reap ==
    /\ up # {}
    /\ StaleRows # {}
    /\ ReapRows(StaleRows)
    /\ overtaken' = [j \in Jobs |-> IF j \in StaleRows /\ attempts[j] \in AtWork(j)
                                   THEN overtaken[j] + 1 ELSE overtaken[j]]
    /\ UNCHANGED <<up, tasks, lateReports, lateClaims, crashes, started>>

\* The process is killed, or told to stop: _run_all cancels every task where
\* it stands and reports nothing.  A report already sent is abandoned.
Stop(w) ==
    /\ w \in up
    /\ crashes < MaxCrashes
    /\ crashes' = crashes + 1
    /\ up' = up \ {w}
    /\ tasks' = {t \in tasks : t.worker # w}
    /\ lateReports' = lateReports \cup
                        {Abandoned(t) : t \in {u \in tasks : u.worker = w
                                                             /\ u.phase \in Outcomes}}
    /\ UNCHANGED <<rows, lateClaims, started, overtaken>>

\* The container is started again.
Restart(w) ==
    /\ w \notin up
    /\ up' = up \cup {w}
    /\ UNCHANGED <<rows, tasks, lateReports, lateClaims, crashes, started, overtaken>>

-----------------------------------------------------------------------------
Next ==
    \/ \E j \in Jobs : Enqueue(j) \/ BecomeDue(j) \/ LockAgesOn(j)
    \/ \E w \in Workers : \/ Claim(w) \/ ClaimTimesOut(w)
                          \/ LateClaim(w) \/ LateClaimLost(w)
                          \/ Stop(w) \/ Restart(w)
    \/ \E t \in tasks : Start(t) \/ HandlerEnds(t) \/ ReportDone(t) \/ ReportTimesOut(t)
    \/ \E r \in lateReports : LateReport(r) \/ LateReportLost(r)
    \/ Reap

Spec == Init /\ [][Next]_vars

\* The event loop runs every ready task, every outgoing call has a time-out
\* (so a handler ends and an abandoned call is over at some time), clocks
\* advance, the reaper ticks and a stopped container is restarted.
Fairness ==
    /\ \A j \in Jobs : WF_vars(BecomeDue(j)) /\ WF_vars(LockAgesOn(j))
    /\ \A w \in Workers :
          /\ WF_vars(Claim(w))
          /\ WF_vars(Restart(w))
          /\ WF_vars(\E t \in tasks : t.worker = w /\ Start(t))
          /\ WF_vars(\E t \in tasks : t.worker = w /\ HandlerEnds(t))
          /\ WF_vars(\E t \in tasks : t.worker = w /\ ReportDone(t))
    /\ WF_vars(\E r \in lateReports : LateReport(r) \/ LateReportLost(r))
    /\ WF_vars(Reap)

FairSpec == Spec /\ Fairness
-----------------------------------------------------------------------------
(* Properties.                                                             *)

\* Every variable keeps its type: a status is one of the enum's, attempts stay
\* within max_attempts, and a row is locked by a worker or by nobody.
TypeOK ==
    /\ status \in [Jobs -> Status]
    /\ attempts \in [Jobs -> Attempts]
    /\ due \in [Jobs -> BOOLEAN]
    /\ lockedBy \in [Jobs -> Workers \cup {NoWorker}]
    /\ lockAge \in [Jobs -> LockAges]
    /\ up \in SUBSET Workers
    /\ tasks \in SUBSET Task
    /\ lateReports \in SUBSET Report
    /\ lateClaims \in SUBSET Workers
    /\ crashes \in 0 .. MaxCrashes
    /\ started \in [Jobs -> SUBSET Attempts]
    /\ overtaken \in [Jobs -> Nat]

\* A row is locked exactly while it runs.  A running row without a lock would be
\* invisible to the reaper and to every claim, and a waiting row with one could
\* be claimed only after the lock times out; reports that come late, twice or
\* for an attempt long superseded must not leave either behind.
LockedIffRunning == \A j \in Jobs : lockedBy[j] # NoWorker <=> status[j] = "running"

\* A row that waits to be claimed has an attempt left.  claim_queue_jobs does not
\* compare attempts with max_attempts: it relies on this.
WaitingHasBudget ==
    \A j \in Jobs : status[j] \in {"queued", "retry"} => attempts[j] < MaxAttempts

\* handle() is entered at most once for each attempt the row has counted, so a
\* job is run at most max_attempts times, whatever is enqueued again, reaped,
\* reported late or lost.
AttemptRunsOnce ==
    [][\A t \in tasks' \ tasks :
          t.phase = "handling" => /\ t.attempt \notin started[t.job]
                                  /\ t.attempt \in 1 .. MaxAttempts]_vars

\* A job that succeeded on its first attempt stays succeeded: with no other
\* attempt there is no report left that could move it.
FirstSuccessIsFinal ==
    [][\A j \in Jobs :
          status[j] = "succeeded" /\ attempts[j] = 1 => status'[j] = "succeeded"]_vars

\* Nothing bounds how long a handler runs or waits for the semaphore, so executions of
\* one job do overlap.  But it is the reaper alone that lets them: a job has no more
\* executions at work than one, and one more for each time its row was taken from an
\* execution at work, whatever the reports of overtaken attempts do to the row that
\* the later ones run under, and whatever claims are late.
OverlapNeedsReap == \A j \in Jobs : Cardinality(AtWork(j)) <= 1 + overtaken[j]

\* ARCHITECTURE.md, "Job Lifecycle": no arrow leaves succeeded.
SucceededIsFinal ==
    [][\A j \in Jobs : status[j] = "succeeded" => status'[j] = "succeeded"]_vars

\* ARCHITECTURE.md, "Job Lifecycle": jobs move along the arrows of the diagram
\* and no others.
Lifecycle == INSTANCE JobLifecycle
FollowsLifecycle == Lifecycle!Spec

\* Every enqueued job is settled in the end, and stays so, through crashes, lost
\* claims, lost and late reports: attempts run out even when nothing succeeds.
EveryJobSettles ==
    \A j \in Jobs : status[j] # "absent" ~> [](status[j] \in Finished)
=============================================================================
