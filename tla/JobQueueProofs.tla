--------------------------- MODULE JobQueueProofs ---------------------------
(***************************************************************************)
(* What JobQueue guarantees for any number of jobs, workers and attempts.  *)
(*                                                                          *)
(* RowInv is inductive by itself: no report, late or repeated, can break    *)
(* what claims and the reaper rely on.  ExecInv adds that every attempt is  *)
(* in at most one place: a task, or a report under way.  OverlapInv counts  *)
(* the executions that a job's row has left behind.  PromptInv, under       *)
(* PromptHandlers, says that whatever works on a job works on the attempt   *)
(* its row counts.                                                          *)
(***************************************************************************)
EXTENDS JobQueue, FiniteSetTheorems, TLAPS

RowTypes ==
    /\ status \in [Jobs -> Status]
    /\ attempts \in [Jobs -> Attempts]
    /\ due \in [Jobs -> BOOLEAN]
    /\ lockedBy \in [Jobs -> Workers \cup {NoWorker}]
    /\ lockAge \in [Jobs -> LockAges]

AbsentIsUnused == \A j \in Jobs : status[j] = "absent" => attempts[j] = 0

RowInv == RowTypes /\ LockedIffRunning /\ WaitingHasBudget /\ AbsentIsUnused

ProcessTypes ==
    /\ up \in SUBSET Workers
    /\ tasks \in SUBSET Task
    /\ lateReports \in SUBSET Report
    /\ lateClaims \in SUBSET Workers
    /\ crashes \in 0 .. MaxCrashes
    /\ started \in [Jobs -> SUBSET Attempts]
    /\ overtaken \in [Jobs -> Nat]

\* Tasks and reports are of attempts the row has counted, and of one attempt
\* there is one task or one report.
OneExecution ==
    /\ \A t \in tasks : t.attempt \in 1 .. attempts[t.job]
    /\ \A r \in lateReports : r.attempt \in 1 .. attempts[r.job]
    /\ \A t, u \in tasks : t.job = u.job /\ t.attempt = u.attempt => t = u
    /\ \A r, s \in lateReports : r.job = s.job /\ r.attempt = s.attempt => r = s
    /\ \A t \in tasks, r \in lateReports : t.job = r.job => t.attempt # r.attempt

\* handle() was entered for counted attempts only, never for a waiting task's.
StartedCounted ==
    /\ \A j \in Jobs : started[j] \subseteq 1 .. attempts[j]
    /\ \A t \in tasks : t.phase = "waiting" => t.attempt \notin started[t.job]

\* Some task or report under way is of attempt a of the job.
Held(j, a) ==
    \/ \E t \in tasks : t.job = j /\ t.attempt = a
    \/ \E r \in lateReports : r.job = j /\ r.attempt = a

\* A job that succeeded has an attempt whose report is spent.
SuccessIsSpent ==
    \A j \in Jobs : status[j] = "succeeded" => \E a \in 1 .. attempts[j] : ~Held(j, a)

ExecInv == TypeOK /\ RowInv /\ OneExecution /\ StartedCounted /\ SuccessIsSpent

\* The attempts still at work that the row no longer runs for: all but the current
\* one while the row runs, and every one when it does not.
LeftBehind(j) ==
    {a \in 1 .. attempts[j] : Held(j, a) /\ (status[j] = "running" => a # attempts[j])}

\* Each of them cost a reap of an execution at work.
OverlapInv == \A j \in Jobs : Cardinality(LeftBehind(j)) <= overtaken[j]

\* All that still works on a job holds its current attempt, and the row runs.
PromptInv ==
    /\ \A t \in tasks : status[t.job] = "running" /\ t.attempt = attempts[t.job]
    /\ \A r \in lateReports : status[r.job] = "running" /\ r.attempt = attempts[r.job]
    /\ \A j \in Jobs : lockAge[j] = Stale => ~Working(j)
-----------------------------------------------------------------------------
(* What each RPC keeps true of the table.                                  *)

\* An empty table is sound.
LEMMA InitRows == Init => RowInv
  BY MaxAttemptsAssumption
     DEF Init, RowInv, RowTypes, LockedIffRunning, WaitingHasBudget, AbsentIsUnused,
         Status, Attempts, LockAges

\* enqueue_job keeps the table sound: it inserts an unlocked row without
\* attempts, or changes nothing.
LEMMA EnqueueKeepsRows ==
  ASSUME RowInv, NEW j \in Jobs, NEW isDue \in BOOLEAN, EnqueueRow(j, isDue)
  PROVE  RowInv'
  <1> USE MaxAttemptsAssumption
      DEF RowInv, RowTypes, LockedIffRunning, WaitingHasBudget, AbsentIsUnused,
          Status, Attempts, LockAges
  <1>1. CASE status[j] = "absent"
    BY <1>1 DEF EnqueueRow
  <1>2. CASE status[j] # "absent"
    BY <1>2 DEF EnqueueRow, rows
  <1> QED BY <1>1, <1>2

\* claim_queue_jobs does: it counts an attempt that WaitingHasBudget leaves.
LEMMA ClaimKeepsRows ==
  ASSUME RowInv, NEW w \in Workers, NEW B \in Batches, ClaimRows(w, B)
  PROVE  RowInv'
  <1>1. \A j \in B : j \in Jobs /\ status[j] \in {"queued", "retry"}
    BY DEF Batches, Claimable
  <1>2. \A j \in B : attempts[j] + 1 \in Attempts
    BY <1>1, MaxAttemptsAssumption
       DEF RowInv, RowTypes, WaitingHasBudget, Attempts
  <1>3. RowTypes'
    BY <1>1, <1>2 DEF ClaimRows, RowInv, RowTypes, Status, LockAges
  <1> QED
    BY <1>1, <1>3, WorkersAssumption
       DEF ClaimRows, RowInv, RowTypes, LockedIffRunning, WaitingHasBudget, AbsentIsUnused

\* complete_queue_job and fail_queue_job do, though they look at no status: both
\* clear the lock, and a retry is written only while attempts remain.
LEMMA ReportKeepsRows ==
  ASSUME RowInv, NEW j \in Jobs, NEW o \in Outcomes, ReportRow(j, o)
  PROVE  RowInv'
  <1> USE MaxAttemptsAssumption
      DEF RowInv, RowTypes, LockedIffRunning, WaitingHasBudget, AbsentIsUnused,
          Status, Attempts, LockAges
  <1>1. CASE CompleteRow(j)
    BY <1>1 DEF CompleteRow
  <1>2. ASSUME NEW forceDead \in BOOLEAN, FailRow(j, forceDead)
        PROVE  RowInv'
    <2>1. /\ lockedBy' = [lockedBy EXCEPT ![j] = NoWorker]
          /\ lockAge' = [lockAge EXCEPT ![j] = 0]
          /\ attempts' = attempts
      BY <1>2 DEF FailRow
    <2>2. due' \in [Jobs -> BOOLEAN]
      BY <1>2 DEF FailRow
    <2>3. CASE forceDead \/ attempts[j] >= MaxAttempts
      <3>1. status' = [status EXCEPT ![j] = "dead_letter"]
        BY <1>2, <2>3 DEF FailRow
      <3> QED BY <2>1, <2>2, <3>1
    <2>4. CASE ~(forceDead \/ attempts[j] >= MaxAttempts)
      <3>1. status' = [status EXCEPT ![j] = "retry"]
        BY <1>2, <2>4 DEF FailRow
      <3> QED BY <2>1, <2>2, <2>4, <3>1
    <2> QED BY <2>3, <2>4
  <1> QED BY <1>1, <1>2 DEF ReportRow

\* reap_stale_running_jobs does: it unlocks what it moves out of running.
LEMMA ReapKeepsRows ==
  ASSUME RowInv, ReapRows(StaleRows)
  PROVE  RowInv'
  <1> USE MaxAttemptsAssumption, WorkersAssumption
      DEF RowInv, RowTypes, LockedIffRunning, WaitingHasBudget, AbsentIsUnused,
          Status, Attempts, LockAges
  <1>1. StaleRows \subseteq Jobs /\ \A j \in StaleRows : status[j] = "running"
    BY DEF StaleRows
  <1> QED BY <1>1 DEF ReapRows

-----------------------------------------------------------------------------
(* The table, under every action.                                          *)

\* Every action keeps the table sound.
LEMMA NextKeepsRows ==
  ASSUME RowInv, ProcessTypes, [Next]_vars
  PROVE  RowInv'
  <1> USE DEF ProcessTypes
  <1>1. ASSUME NEW j \in Jobs, Enqueue(j)
        PROVE  RowInv'
    BY <1>1, EnqueueKeepsRows DEF Enqueue
  <1>2. ASSUME NEW j \in Jobs, BecomeDue(j) \/ LockAgesOn(j)
        PROVE  RowInv'
    <2> USE DEF RowInv, RowTypes, LockedIffRunning, WaitingHasBudget, AbsentIsUnused
    <2>1. CASE BecomeDue(j)
      <3>1. due' \in [Jobs -> BOOLEAN]
        BY <2>1 DEF BecomeDue
      <3> QED BY <2>1, <3>1 DEF BecomeDue
    <2>2. CASE LockAgesOn(j)
      <3>1. lockAge' \in [Jobs -> LockAges]
        BY <2>2 DEF LockAgesOn, LockAges, Stale
      <3> QED BY <2>2, <3>1 DEF LockAgesOn
    <2> QED BY <1>2, <2>1, <2>2
  <1>3. ASSUME NEW w \in Workers, Claim(w) \/ LateClaim(w)
        PROVE  RowInv'
    BY <1>3, ClaimKeepsRows DEF Claim, LateClaim
  <1>4. ASSUME NEW t \in tasks, ReportDone(t)
        PROVE  RowInv'
    <2>1. t.job \in Jobs
      BY DEF Task
    <2> QED BY <1>4, <2>1, ReportKeepsRows DEF ReportDone
  <1>5. ASSUME NEW r \in lateReports, LateReport(r)
        PROVE  RowInv'
    <2>1. r.job \in Jobs /\ r.outcome \in Outcomes
      BY DEF Report
    <2> QED BY <1>5, <2>1, ReportKeepsRows DEF LateReport
  <1>6. CASE Reap
    BY <1>6, ReapKeepsRows DEF Reap
  <1>7. CASE UNCHANGED rows
    BY <1>7 DEF rows, RowInv, RowTypes, LockedIffRunning, WaitingHasBudget,
                AbsentIsUnused
  <1>8. ASSUME NEW w \in Workers,
               ClaimTimesOut(w) \/ LateClaimLost(w) \/ Stop(w) \/ Restart(w)
        PROVE  UNCHANGED rows
    BY <1>8 DEF ClaimTimesOut, LateClaimLost, Stop, Restart
  <1>9. ASSUME NEW t \in tasks, Start(t) \/ HandlerEnds(t) \/ ReportTimesOut(t)
        PROVE  UNCHANGED rows
    BY <1>9 DEF Start, HandlerEnds, ReportTimesOut
  <1>10. ASSUME NEW r \in lateReports, LateReportLost(r)
         PROVE  UNCHANGED rows
    BY <1>10 DEF LateReportLost
  <1>11. CASE UNCHANGED vars
    BY <1>7, <1>11 DEF vars, rows
  <1> QED
    BY <1>1, <1>2, <1>3, <1>4, <1>5, <1>6, <1>7, <1>8, <1>9, <1>10, <1>11 DEF Next
-----------------------------------------------------------------------------
(* The processes' state keeps its types.                                   *)

\* Every action keeps the types of what the processes hold.
LEMMA NextKeepsProcessTypes ==
  ASSUME RowInv, RowInv', ProcessTypes, [Next]_vars
  PROVE  ProcessTypes'
  <1> USE DEF ProcessTypes, Task, Report, Phases
  <1>1. CASE UNCHANGED <<up, tasks, lateReports, lateClaims, crashes, started, overtaken>>
    BY <1>1
  <1>2. ASSUME NEW j \in Jobs, Enqueue(j) \/ BecomeDue(j) \/ LockAgesOn(j)
        PROVE  ProcessTypes'
    BY <1>1, <1>2 DEF Enqueue, BecomeDue, LockAgesOn
  <1>3. ASSUME NEW w \in Workers, Claim(w)
        PROVE  ProcessTypes'
    <2>1. PICK B \in Batches :
             tasks' = tasks \cup {[worker |-> w, job |-> j, attempt |-> attempts[j] + 1,
                                   phase |-> "waiting"] : j \in B}
      BY <1>3 DEF Claim
    <2>2. \A j \in B : j \in Jobs /\ attempts[j] + 1 \in Attempts
      BY MaxAttemptsAssumption
         DEF Batches, Claimable, RowInv, RowTypes, WaitingHasBudget, Attempts
    <2>3. tasks' \in SUBSET Task
      BY <2>1, <2>2
    <2> QED BY <1>3, <2>3 DEF Claim
  <1>4. ASSUME NEW w \in Workers,
               ClaimTimesOut(w) \/ LateClaim(w) \/ LateClaimLost(w) \/ Restart(w)
        PROVE  ProcessTypes'
    BY <1>4 DEF ClaimTimesOut, LateClaim, LateClaimLost, Restart
  <1>5. ASSUME NEW w \in Workers, Stop(w)
        PROVE  ProcessTypes'
    <2>1. \A t \in {u \in tasks : u.worker = w /\ u.phase \in Outcomes} :
             Abandoned(t) \in Report
      BY DEF Abandoned
    <2>2. lateReports' \in SUBSET Report /\ tasks' \in SUBSET Task
      BY <1>5, <2>1 DEF Stop
    <2>3. crashes' \in 0 .. MaxCrashes /\ up' \in SUBSET Workers
      BY <1>5, LimitsAssumption DEF Stop
    <2> QED BY <1>5, <2>2, <2>3 DEF Stop
  <1>6. ASSUME NEW t \in tasks, Start(t)
        PROVE  ProcessTypes'
    <2>1. [t EXCEPT !.phase = "handling"] \in Task
      OBVIOUS
    <2>2. started' \in [Jobs -> SUBSET Attempts]
      BY <1>6 DEF Start
    <2> QED BY <1>6, <2>1, <2>2 DEF Start
  <1>7. ASSUME NEW t \in tasks, HandlerEnds(t)
        PROVE  ProcessTypes'
    <2>1. \A o \in Outcomes : [t EXCEPT !.phase = o] \in Task
      OBVIOUS
    <2> QED BY <1>7, <2>1 DEF HandlerEnds
  <1>8. ASSUME NEW t \in tasks, ReportDone(t) \/ ReportTimesOut(t)
        PROVE  ProcessTypes'
    <2>1. t.phase \in Outcomes => Abandoned(t) \in Report
      BY DEF Abandoned
    <2> QED BY <1>8, <2>1 DEF ReportDone, ReportTimesOut
  <1>9. ASSUME NEW r \in lateReports, LateReport(r) \/ LateReportLost(r)
        PROVE  ProcessTypes'
    BY <1>9 DEF LateReport, LateReportLost
  <1>10. CASE Reap
    <2>1. overtaken' \in [Jobs -> Nat]
      BY <1>10 DEF Reap
    <2> QED BY <1>10, <2>1 DEF Reap
  <1>11. CASE UNCHANGED vars
    BY <1>1, <1>11 DEF vars
  <1> QED
    BY <1>2, <1>3, <1>4, <1>5, <1>6, <1>7, <1>8, <1>9, <1>10, <1>11 DEF Next

\* The queue's types hold for every number of jobs, workers and attempts; that
\* attempts never pass max_attempts rests on WaitingHasBudget.
THEOREM TypesHold == Spec => [](TypeOK /\ RowInv)
  <1>1. Init => RowInv /\ ProcessTypes
    <2>1. Init => ProcessTypes
      BY LimitsAssumption DEF Init, ProcessTypes
    <2> QED BY <2>1, InitRows
  <1>2. RowInv /\ ProcessTypes /\ [Next]_vars => (RowInv /\ ProcessTypes)'
    BY NextKeepsRows, NextKeepsProcessTypes
  <1>3. RowInv /\ ProcessTypes => TypeOK
    BY DEF RowInv, RowTypes, ProcessTypes, TypeOK
  <1> QED BY <1>1, <1>2, <1>3, PTL DEF Spec

\* The reaper and the claim can rely on the table: a row is locked exactly while
\* it runs, and a waiting row has an attempt left, after any history of reports.
THEOREM TableIsSound == Spec => [](LockedIffRunning /\ WaitingHasBudget)
  <1>1. RowInv => LockedIffRunning /\ WaitingHasBudget
    BY DEF RowInv
  <1> QED BY <1>1, TypesHold, PTL
-----------------------------------------------------------------------------
(* Each attempt is in one place.                                           *)

\* A claim counts an attempt that no task, report or start has had.
LEMMA ClaimedTasks ==
  ASSUME TypeOK, RowInv, NEW w \in Workers, NEW B \in Batches, ClaimRows(w, B),
         tasks' = tasks \cup {[worker |-> w, job |-> j, attempt |-> attempts[j] + 1,
                               phase |-> "waiting"] : j \in B}
  PROVE  /\ B \subseteq Jobs
         /\ \A j \in Jobs : attempts'[j] = IF j \in B THEN attempts[j] + 1 ELSE attempts[j]
         /\ \A t \in tasks' : \/ t \in tasks
                              \/ /\ t.job \in B
                                 /\ t = [worker |-> w, job |-> t.job,
                                         attempt |-> attempts[t.job] + 1,
                                         phase |-> "waiting"]
  <1>1. B \subseteq Jobs
    BY DEF Batches, Claimable
  <1> QED BY <1>1 DEF ClaimRows

\* No RPC takes an attempt back, and one is counted only when a claim makes the row
\* run.
LEMMA AttemptsGrow ==
  ASSUME TypeOK, [Next]_vars, NEW j \in Jobs
  PROVE  /\ attempts[j] \in Nat
         /\ attempts'[j] \in {attempts[j], attempts[j] + 1}
         /\ attempts'[j] # attempts[j] => status[j] # "running" /\ status'[j] = "running"
  <1> USE DEF TypeOK
  <1>1. attempts[j] \in Nat
    BY MaxAttemptsAssumption DEF Attempts
  <1>2. CASE attempts' = attempts
    BY <1>1, <1>2
  <1>3. ASSUME NEW w \in Workers, Claim(w) \/ LateClaim(w)
        PROVE  /\ attempts'[j] \in {attempts[j], attempts[j] + 1}
               /\ attempts'[j] # attempts[j]
                    => status[j] # "running" /\ status'[j] = "running"
    <2>1. PICK B \in Batches : ClaimRows(w, B)
      BY <1>3 DEF Claim, LateClaim
    <2>2. CASE j \in B
      BY <1>1, <2>1, <2>2 DEF ClaimRows, Batches, Claimable
    <2>3. CASE j \notin B
      BY <1>1, <2>1, <2>3 DEF ClaimRows
    <2> QED BY <2>2, <2>3
  <1>4. ASSUME NEW k \in Jobs, Enqueue(k) \/ BecomeDue(k) \/ LockAgesOn(k)
        PROVE  attempts' = attempts
    BY <1>4 DEF Enqueue, EnqueueRow, rows, BecomeDue, LockAgesOn
  <1>5. ASSUME NEW w \in Workers,
               ClaimTimesOut(w) \/ LateClaimLost(w) \/ Stop(w) \/ Restart(w)
        PROVE  attempts' = attempts
    BY <1>5 DEF ClaimTimesOut, LateClaimLost, Stop, Restart, rows
  <1>6. ASSUME NEW t \in tasks,
               Start(t) \/ HandlerEnds(t) \/ ReportDone(t) \/ ReportTimesOut(t)
        PROVE  attempts' = attempts
    BY <1>6 DEF Start, HandlerEnds, ReportDone, ReportTimesOut, rows, ReportRow,
                CompleteRow, FailRow
  <1>7. ASSUME NEW r \in lateReports, LateReport(r) \/ LateReportLost(r)
        PROVE  attempts' = attempts
    BY <1>7 DEF LateReport, LateReportLost, rows, ReportRow, CompleteRow, FailRow
  <1>8. Reap \/ UNCHANGED vars => attempts' = attempts
    BY DEF Reap, ReapRows, vars
  <1> QED
    BY <1>1, <1>2, <1>3, <1>4, <1>5, <1>6, <1>7, <1>8 DEF Next

\* The steps that leave tasks, reports and attempts where they are, or take some
\* of them away, keep OneExecution and StartedCounted.
LEMMA FewerTasks ==
  ASSUME TypeOK, OneExecution, StartedCounted,
         tasks' \subseteq tasks, lateReports' \subseteq lateReports,
         attempts' = attempts, started' = started
  PROVE  OneExecution' /\ StartedCounted'
  BY DEF OneExecution, StartedCounted

\* A task that moves on to its next phase is still the only one of its attempt.
LEMMA PhaseMoves ==
  ASSUME TypeOK, OneExecution, NEW t \in tasks, NEW p \in Phases,
         tasks' = (tasks \ {t}) \cup {[t EXCEPT !.phase = p]},
         attempts' = attempts, lateReports' = lateReports
  PROVE  OneExecution'
  <1> DEFINE n == [t EXCEPT !.phase = p]
  <1>1. n.job = t.job /\ n.attempt = t.attempt
    BY DEF TypeOK, Task
  <1>2. \A u \in tasks' : u = n \/ (u \in tasks /\ u # t)
    OBVIOUS
  <1> HIDE DEF n
  <1> QED BY <1>1, <1>2 DEF OneExecution

\* A task that ends leaves at most its report behind.
LEMMA ReportLeaves ==
  ASSUME TypeOK, OneExecution, StartedCounted, NEW t \in tasks, t.phase \in Outcomes,
         tasks' = tasks \ {t}, lateReports' = lateReports \cup {Abandoned(t)},
         attempts' = attempts, started' = started
  PROVE  OneExecution' /\ StartedCounted'
  <1> DEFINE n == Abandoned(t)
  <1>1. n.job = t.job /\ n.attempt = t.attempt
    BY DEF Abandoned
  <1>2. \A r \in lateReports' : r = n \/ r \in lateReports
    OBVIOUS
  <1> HIDE DEF n
  <1> QED BY <1>1, <1>2 DEF OneExecution, StartedCounted

\* Every action keeps each attempt with at most one task or report.
LEMMA NextKeepsExecution ==
  ASSUME TypeOK, RowInv, OneExecution, StartedCounted, [Next]_vars
  PROVE  OneExecution' /\ StartedCounted'
  <1>1. CASE UNCHANGED <<attempts, tasks, lateReports, started>>
    BY <1>1, FewerTasks
  <1>2. ASSUME NEW j \in Jobs, Enqueue(j) \/ BecomeDue(j) \/ LockAgesOn(j)
        PROVE  OneExecution' /\ StartedCounted'
    BY <1>1, <1>2 DEF Enqueue, EnqueueRow, rows, BecomeDue, LockAgesOn
  <1>3. ASSUME NEW w \in Workers, Claim(w)
        PROVE  OneExecution' /\ StartedCounted'
    <2>1. PICK B \in Batches :
             /\ ClaimRows(w, B)
             /\ tasks' = tasks \cup {[worker |-> w, job |-> j, attempt |-> attempts[j] + 1,
                                      phase |-> "waiting"] : j \in B}
      BY <1>3 DEF Claim
    <2>2. /\ B \subseteq Jobs
          /\ \A j \in Jobs : attempts'[j] = IF j \in B THEN attempts[j] + 1 ELSE attempts[j]
          /\ \A t \in tasks' : \/ t \in tasks
                               \/ /\ t.job \in B
                                  /\ t = [worker |-> w, job |-> t.job,
                                          attempt |-> attempts[t.job] + 1,
                                          phase |-> "waiting"]
      BY <2>1, ClaimedTasks
    <2>3. \A j \in Jobs : attempts[j] \in Nat
      BY MaxAttemptsAssumption DEF TypeOK, Attempts
    <2>4. /\ \A t \in tasks : t.job \in Jobs /\ t.attempt \in Nat
          /\ \A r \in lateReports : r.job \in Jobs /\ r.attempt \in Nat
      BY MaxAttemptsAssumption DEF TypeOK, Task, Report, Attempts
    <2>5. \A t \in tasks' : t.job \in Jobs /\ \/ t \in tasks
                                              \/ t.attempt = attempts[t.job] + 1
      BY <2>2, <2>4
    <2>6. /\ \A t \in tasks' : t.attempt \in 1 .. attempts'[t.job]
          /\ \A r \in lateReports' : r.attempt \in 1 .. attempts'[r.job]
      BY <1>3, <2>2, <2>3, <2>4 DEF Claim, OneExecution
    <2>7. \A t, u \in tasks' : t.job = u.job /\ t.attempt = u.attempt => t = u
      BY <2>2, <2>3, <2>4 DEF OneExecution
    <2>8. \A t \in tasks', r \in lateReports' : t.job = r.job => t.attempt # r.attempt
      BY <1>3, <2>3, <2>4, <2>5 DEF Claim, OneExecution
    <2>9. OneExecution'
      BY <1>3, <2>6, <2>7, <2>8 DEF Claim, OneExecution
    <2>10. StartedCounted'
      BY <1>3, <2>2, <2>3, <2>5 DEF Claim, StartedCounted
    <2> QED BY <2>9, <2>10
  <1>4. ASSUME NEW w \in Workers, LateClaim(w)
        PROVE  OneExecution' /\ StartedCounted'
    <2>1. \A j \in Jobs : attempts[j] \in Nat /\ attempts'[j] \in {attempts[j], attempts[j] + 1}
      BY <1>4, AttemptsGrow DEF Next
    <2>2. /\ \A t \in tasks : t.job \in Jobs
          /\ \A r \in lateReports : r.job \in Jobs
      BY DEF TypeOK, Task, Report
    <2>3. UNCHANGED <<tasks, lateReports, started>>
      BY <1>4 DEF LateClaim
    <2> QED BY <2>1, <2>2, <2>3 DEF OneExecution, StartedCounted
  <1>5. ASSUME NEW w \in Workers, ClaimTimesOut(w) \/ LateClaimLost(w) \/ Restart(w)
        PROVE  OneExecution' /\ StartedCounted'
    BY <1>1, <1>5 DEF ClaimTimesOut, LateClaimLost, Restart, rows
  <1>6. ASSUME NEW w \in Workers, Stop(w)
        PROVE  OneExecution' /\ StartedCounted'
    <2>1. /\ tasks' = {t \in tasks : t.worker # w}
          /\ \A r \in lateReports' :
                \/ r \in lateReports
                \/ \E t \in tasks : t.worker = w /\ r = Abandoned(t)
          /\ attempts' = attempts
          /\ started' = started
      BY <1>6 DEF Stop, rows
    <2>2. \A t \in tasks : Abandoned(t).job = t.job /\ Abandoned(t).attempt = t.attempt
      BY DEF Abandoned
    <2> QED BY <2>1, <2>2 DEF OneExecution, StartedCounted
  <1>7. ASSUME NEW t \in tasks, Start(t)
        PROVE  OneExecution' /\ StartedCounted'
    <2>1. OneExecution'
      BY <1>7, PhaseMoves DEF Start, rows, Phases
    <2>2. t.job \in Jobs /\ t.attempt \in 1 .. attempts[t.job]
      BY DEF TypeOK, Task, OneExecution
    <2>3. started' = [started EXCEPT ![t.job] = @ \cup {t.attempt}] /\ attempts' = attempts
      BY <1>7 DEF Start, rows
    <2>4. \A j \in Jobs : started'[j] \subseteq 1 .. attempts'[j]
      BY <2>2, <2>3 DEF TypeOK, StartedCounted
    <2>5. \A u \in tasks' : u.phase = "waiting" => u \in tasks /\ u # t
      BY <1>7 DEF Start, TypeOK, Task
    <2>6. \A u \in tasks' : u.phase = "waiting" => u.attempt \notin started'[u.job]
      BY <2>2, <2>3, <2>5 DEF TypeOK, Task, StartedCounted, OneExecution
    <2> QED BY <2>1, <2>4, <2>6 DEF StartedCounted
  <1>8. ASSUME NEW t \in tasks, HandlerEnds(t)
        PROVE  OneExecution' /\ StartedCounted'
    <2>1. PICK o \in Outcomes : tasks' = (tasks \ {t}) \cup {[t EXCEPT !.phase = o]}
      BY <1>8 DEF HandlerEnds
    <2>2. UNCHANGED <<attempts, lateReports, started>>
      BY <1>8 DEF HandlerEnds, rows
    <2>3. OneExecution'
      BY <2>1, <2>2, PhaseMoves DEF Phases
    <2>4. \A u \in tasks' : u.phase = "waiting" => u \in tasks
      BY <2>1 DEF TypeOK, Task, Outcomes
    <2> QED BY <2>2, <2>3, <2>4 DEF StartedCounted
  <1>9. ASSUME NEW t \in tasks, ReportDone(t)
        PROVE  OneExecution' /\ StartedCounted'
    BY <1>9, FewerTasks DEF ReportDone, ReportRow, CompleteRow, FailRow
  <1>10. ASSUME NEW t \in tasks, ReportTimesOut(t)
         PROVE  OneExecution' /\ StartedCounted'
    BY <1>10, ReportLeaves DEF ReportTimesOut, rows
  <1>11. ASSUME NEW r \in lateReports, LateReport(r)
         PROVE  OneExecution' /\ StartedCounted'
    BY <1>11, FewerTasks DEF LateReport, ReportRow, CompleteRow, FailRow
  <1>12. ASSUME NEW r \in lateReports, LateReportLost(r)
         PROVE  OneExecution' /\ StartedCounted'
    BY <1>12, FewerTasks DEF LateReportLost, rows
  <1>13. CASE Reap
    BY <1>1, <1>13 DEF Reap, ReapRows
  <1>14. CASE UNCHANGED vars
    BY <1>1, <1>14 DEF vars
  <1> QED
    BY <1>2, <1>3, <1>4, <1>5, <1>6, <1>7, <1>8, <1>9, <1>10, <1>11, <1>12, <1>13, <1>14
       DEF Next
-----------------------------------------------------------------------------
(* A success leaves an attempt spent.                                      *)

\* No step brings an attempt already counted back into a task or a report.
LEMMA HeldShrinks ==
  ASSUME TypeOK, RowInv, [Next]_vars, NEW j \in Jobs, NEW a \in 1 .. attempts[j], Held(j, a)'
  PROVE  Held(j, a)
  <1>1. CASE tasks' \subseteq tasks /\ lateReports' \subseteq lateReports
    BY <1>1 DEF Held
  <1>2. ASSUME NEW k \in Jobs, Enqueue(k) \/ BecomeDue(k) \/ LockAgesOn(k)
        PROVE  Held(j, a)
    BY <1>1, <1>2 DEF Enqueue, BecomeDue, LockAgesOn
  <1>3. ASSUME NEW w \in Workers, Claim(w)
        PROVE  Held(j, a)
    <2>1. PICK B \in Batches :
             /\ ClaimRows(w, B)
             /\ tasks' = tasks \cup {[worker |-> w, job |-> k, attempt |-> attempts[k] + 1,
                                      phase |-> "waiting"] : k \in B}
      BY <1>3 DEF Claim
    <2>2. \A t \in tasks' : t \in tasks \/ t.attempt = attempts[t.job] + 1
      BY <2>1, ClaimedTasks
    <2>3. attempts[j] \in Nat
      BY MaxAttemptsAssumption DEF TypeOK, Attempts
    <2> QED BY <1>3, <2>2, <2>3 DEF Claim, Held
  <1>4. ASSUME NEW w \in Workers,
               ClaimTimesOut(w) \/ LateClaim(w) \/ LateClaimLost(w) \/ Restart(w)
        PROVE  Held(j, a)
    BY <1>1, <1>4 DEF ClaimTimesOut, LateClaim, LateClaimLost, Restart
  <1>5. ASSUME NEW w \in Workers, Stop(w)
        PROVE  Held(j, a)
    <2>1. /\ tasks' \subseteq tasks
          /\ \A r \in lateReports' :
                r \in lateReports \/ \E t \in tasks : r = Abandoned(t)
      BY <1>5 DEF Stop
    <2>2. \A t \in tasks : Abandoned(t).job = t.job /\ Abandoned(t).attempt = t.attempt
      BY DEF Abandoned
    <2> QED BY <2>1, <2>2 DEF Held
  <1>6. ASSUME NEW t \in tasks, Start(t) \/ HandlerEnds(t)
        PROVE  Held(j, a)
    <2>1. /\ \A u \in tasks' : u \in tasks \/ (u.job = t.job /\ u.attempt = t.attempt)
          /\ lateReports' = lateReports
      BY <1>6 DEF Start, HandlerEnds, TypeOK, Task
    <2> QED BY <2>1 DEF Held
  <1>7. ASSUME NEW t \in tasks, ReportTimesOut(t)
        PROVE  Held(j, a)
    <2>1. Abandoned(t).job = t.job /\ Abandoned(t).attempt = t.attempt
      BY DEF Abandoned
    <2>2. /\ tasks' \subseteq tasks
          /\ \A r \in lateReports' : r \in lateReports \/ r = Abandoned(t)
      BY <1>7 DEF ReportTimesOut
    <2> QED BY <2>1, <2>2 DEF Held
  <1>8. ASSUME NEW t \in tasks, ReportDone(t)
        PROVE  Held(j, a)
    BY <1>1, <1>8 DEF ReportDone
  <1>9. ASSUME NEW r \in lateReports, LateReport(r) \/ LateReportLost(r)
        PROVE  Held(j, a)
    BY <1>1, <1>9 DEF LateReport, LateReportLost
  <1>10. Reap \/ UNCHANGED vars => Held(j, a)
    BY <1>1 DEF Reap, vars
  <1> QED
    BY <1>2, <1>3, <1>4, <1>5, <1>6, <1>7, <1>8, <1>9, <1>10 DEF Next

\* Only a report that arrives, or a claim or the reaper that finds the row in
\* their statuses, changes what became of a job.
LEMMA WhoMovesAJob ==
  ASSUME TypeOK, [Next]_vars, NEW j \in Jobs, status'[j] # status[j]
  PROVE  \/ status[j] = "absent" /\ status'[j] = "queued"
         \/ status[j] \in {"queued", "retry"} /\ status'[j] = "running"
         \/ /\ Reap /\ j \in StaleRows /\ status[j] = "running"
            /\ status'[j] = IF attempts[j] >= MaxAttempts THEN "dead_letter" ELSE "retry"
         \/ \E t \in tasks : ReportDone(t) /\ t.job = j
         \/ \E r \in lateReports : LateReport(r) /\ r.job = j
  <1> USE DEF TypeOK
  <1>1. ASSUME NEW k \in Jobs, Enqueue(k)
        PROVE  status[j] = "absent" /\ status'[j] = "queued"
    BY <1>1 DEF Enqueue, EnqueueRow, rows
  <1>2. ASSUME NEW w \in Workers, Claim(w) \/ LateClaim(w)
        PROVE  status[j] \in {"queued", "retry"} /\ status'[j] = "running"
    BY <1>2 DEF Claim, LateClaim, ClaimRows, Batches, Claimable
  <1>3. ASSUME Reap
        PROVE  /\ j \in StaleRows /\ status[j] = "running"
               /\ status'[j] = IF attempts[j] >= MaxAttempts THEN "dead_letter" ELSE "retry"
    BY <1>3 DEF Reap, ReapRows, StaleRows
  <1>4. ASSUME NEW t \in tasks, ReportDone(t)
        PROVE  t.job = j
    BY <1>4 DEF ReportDone, ReportRow, CompleteRow, FailRow, Task
  <1>5. ASSUME NEW r \in lateReports, LateReport(r)
        PROVE  r.job = j
    BY <1>5 DEF LateReport, ReportRow, CompleteRow, FailRow, Report
  <1>6. ASSUME NEW k \in Jobs, BecomeDue(k) \/ LockAgesOn(k)
        PROVE  FALSE
    BY <1>6 DEF BecomeDue, LockAgesOn
  <1>7. ASSUME NEW w \in Workers,
               ClaimTimesOut(w) \/ LateClaimLost(w) \/ Stop(w) \/ Restart(w)
        PROVE  FALSE
    BY <1>7 DEF ClaimTimesOut, LateClaimLost, Stop, Restart, rows
  <1>8. ASSUME NEW t \in tasks, Start(t) \/ HandlerEnds(t) \/ ReportTimesOut(t)
        PROVE  FALSE
    BY <1>8 DEF Start, HandlerEnds, ReportTimesOut, rows
  <1>9. ASSUME NEW r \in lateReports, LateReportLost(r)
        PROVE  FALSE
    BY <1>9 DEF LateReportLost, rows
  <1>10. ~UNCHANGED vars
    BY DEF vars
  <1> QED
    BY <1>1, <1>2, <1>3, <1>4, <1>5, <1>6, <1>7, <1>8, <1>9, <1>10 DEF Next

\* A report that arrives gives its attempt up.
LEMMA ReportIsSpent ==
  ASSUME TypeOK, OneExecution, NEW j \in Jobs,
         \/ \E t \in tasks : ReportDone(t) /\ t.job = j
         \/ \E r \in lateReports : LateReport(r) /\ r.job = j
  PROVE  \E a \in 1 .. attempts[j] : Held(j, a) /\ ~Held(j, a)'
  <1>1. ASSUME NEW t \in tasks, ReportDone(t), t.job = j
        PROVE  Held(j, t.attempt) /\ ~Held(j, t.attempt)' /\ t.attempt \in 1 .. attempts[j]
    BY <1>1 DEF ReportDone, Held, OneExecution
  <1>2. ASSUME NEW r \in lateReports, LateReport(r), r.job = j
        PROVE  Held(j, r.attempt) /\ ~Held(j, r.attempt)' /\ r.attempt \in 1 .. attempts[j]
    BY <1>2 DEF LateReport, Held, OneExecution
  <1> QED BY <1>1, <1>2

\* Every action keeps what is known of a job whose first attempt succeeded.
LEMMA NextKeepsSuccess ==
  ASSUME ExecInv, [Next]_vars
  PROVE  SuccessIsSpent'
  <1> USE DEF ExecInv
  <1> SUFFICES ASSUME NEW j \in Jobs, status'[j] = "succeeded"
               PROVE  \E a \in 1 .. attempts'[j] : ~Held(j, a)'
    BY DEF SuccessIsSpent
  <1>1. 1 .. attempts[j] \subseteq 1 .. attempts'[j]
    BY AttemptsGrow
  <1>2. CASE status[j] = "succeeded"
    <2>1. PICK a \in 1 .. attempts[j] : ~Held(j, a)
      BY <1>2 DEF SuccessIsSpent
    <2>2. ~Held(j, a)'
      BY <2>1, HeldShrinks
    <2> QED BY <1>1, <2>2
  <1>3. CASE status[j] # "succeeded"
    <2>1. \/ \E t \in tasks : ReportDone(t) /\ t.job = j
          \/ \E r \in lateReports : LateReport(r) /\ r.job = j
      BY <1>3, WhoMovesAJob
    <2> QED BY <1>1, <2>1, ReportIsSpent
  <1> QED BY <1>2, <1>3

\* An attempt of a job is in at most one place, a task or an abandoned report, and
\* is counted by the row: what every statement about executions rests on.
THEOREM ExecutionsAreSound == Spec => []ExecInv
  <1>1. Init => OneExecution /\ StartedCounted /\ SuccessIsSpent
    BY DEF Init, OneExecution, StartedCounted, SuccessIsSpent
  <1>2. OneExecution /\ StartedCounted /\ SuccessIsSpent /\ TypeOK /\ RowInv /\ [Next]_vars
        => (OneExecution /\ StartedCounted /\ SuccessIsSpent)'
    BY NextKeepsExecution, NextKeepsSuccess DEF ExecInv
  <1> QED BY <1>1, <1>2, TypesHold, PTL DEF Spec, ExecInv
-----------------------------------------------------------------------------
(* The action properties.                                                  *)

\* handle() is entered at most once per counted attempt, so at most max_attempts
\* times per job, for every interleaving of claims, crashes, the reaper and late
\* or repeated calls.
THEOREM AttemptsRunOnce == Spec => AttemptRunsOnce
  <1>1. ASSUME ExecInv, [Next]_vars, NEW t \in tasks' \ tasks, t.phase = "handling"
        PROVE  t.attempt \notin started[t.job] /\ t.attempt \in 1 .. MaxAttempts
    <2> USE <1>1 DEF ExecInv
    <2>1. ASSUME tasks' \subseteq tasks
          PROVE  FALSE
      BY <2>1
    <2>2. ASSUME NEW w \in Workers, Claim(w)
          PROVE  FALSE
      BY <2>2, ClaimedTasks DEF Claim
    <2>3. ASSUME NEW u \in tasks, HandlerEnds(u)
          PROVE  FALSE
      BY <2>3 DEF HandlerEnds, TypeOK, Task, Outcomes
    <2>4. ASSUME NEW u \in tasks, Start(u)
          PROVE  t.attempt \notin started[t.job] /\ t.attempt \in 1 .. MaxAttempts
      <3>1. t.job = u.job /\ t.attempt = u.attempt /\ u.job \in Jobs
        BY <2>4 DEF Start, TypeOK, Task
      <3>2. u.attempt \notin started[u.job] /\ u.attempt \in 1 .. attempts[u.job]
        BY <2>4 DEF Start, StartedCounted, OneExecution
      <3>3. attempts[u.job] \in 0 .. MaxAttempts
        BY <3>1 DEF TypeOK, Attempts
      <3> QED BY <3>1, <3>2, <3>3, MaxAttemptsAssumption
    <2>5. ASSUME NEW j \in Jobs, Enqueue(j) \/ BecomeDue(j) \/ LockAgesOn(j)
          PROVE  FALSE
      BY <2>1, <2>5 DEF Enqueue, BecomeDue, LockAgesOn
    <2>6. ASSUME NEW w \in Workers, \/ ClaimTimesOut(w) \/ LateClaim(w) \/ LateClaimLost(w)
                                    \/ Stop(w) \/ Restart(w)
          PROVE  FALSE
      BY <2>1, <2>6 DEF ClaimTimesOut, LateClaim, LateClaimLost, Stop, Restart
    <2>7. ASSUME NEW u \in tasks, ReportDone(u) \/ ReportTimesOut(u)
          PROVE  FALSE
      BY <2>1, <2>7 DEF ReportDone, ReportTimesOut
    <2>8. ASSUME NEW r \in lateReports, LateReport(r) \/ LateReportLost(r)
          PROVE  FALSE
      BY <2>1, <2>8 DEF LateReport, LateReportLost
    <2>9. ASSUME Reap \/ UNCHANGED vars
          PROVE  FALSE
      BY <2>1, <2>9 DEF Reap, vars
    <2> QED BY <2>2, <2>3, <2>4, <2>5, <2>6, <2>7, <2>8, <2>9 DEF Next
  <1>2. ExecInv /\ [Next]_vars =>
          [\A t \in tasks' \ tasks :
              t.phase = "handling" => /\ t.attempt \notin started[t.job]
                                      /\ t.attempt \in 1 .. MaxAttempts]_vars
    BY <1>1
  <1> QED BY <1>2, ExecutionsAreSound, PTL DEF Spec, AttemptRunsOnce

\* A job that succeeded on its first attempt stays succeeded.
THEOREM FirstSuccessStays == Spec => FirstSuccessIsFinal
  <1>1. ASSUME ExecInv, [Next]_vars, NEW j \in Jobs, status[j] = "succeeded",
               attempts[j] = 1, status'[j] # "succeeded"
        PROVE  FALSE
    <2> USE <1>1 DEF ExecInv
    <2>1. PICK a \in 1 .. attempts[j] : Held(j, a) /\ ~Held(j, a)'
      BY WhoMovesAJob, ReportIsSpent
    <2>2. PICK b \in 1 .. attempts[j] : ~Held(j, b)
      BY DEF SuccessIsSpent
    <2> QED BY <2>1, <2>2
  <1>2. ExecInv /\ [Next]_vars =>
          [\A j \in Jobs : status[j] = "succeeded" /\ attempts[j] = 1
                             => status'[j] = "succeeded"]_vars
    BY <1>1
  <1> QED BY <1>2, ExecutionsAreSound, PTL DEF Spec, FirstSuccessIsFinal

-----------------------------------------------------------------------------
(* Overlapping executions.                                                 *)

\* The attempts at work are those held, the current one and those left behind.
LEMMA AtWorkIsHeld ==
  ASSUME ExecInv, NEW j \in Jobs
  PROVE  /\ \A a : a \in AtWork(j) <=> Held(j, a)
         /\ AtWork(j) \subseteq LeftBehind(j) \cup {attempts[j]}
  <1>1. \A a : a \in AtWork(j) <=> Held(j, a)
    BY DEF AtWork, Held
  <1>2. \A a : Held(j, a) => a \in 1 .. attempts[j]
    BY DEF ExecInv, OneExecution, Held
  <1> QED BY <1>1, <1>2 DEF LeftBehind

\* They are finitely many.
LEMMA LeftBehindIsFinite ==
  ASSUME TypeOK, NEW j \in Jobs
  PROVE  /\ IsFiniteSet(LeftBehind(j))
         /\ Cardinality(LeftBehind(j)) \in Nat
         /\ attempts[j] \in Nat
  <1>1. attempts[j] \in Nat
    BY MaxAttemptsAssumption DEF TypeOK, Attempts
  <1>2. IsFiniteSet(1 .. attempts[j])
    BY <1>1, FS_Interval
  <1>3. LeftBehind(j) \subseteq 1 .. attempts[j]
    BY DEF LeftBehind
  <1> QED BY <1>1, <1>2, <1>3, FS_Subset, FS_CardinalityType

\* What the reaper takes is counted, and nothing else is.
LEMMA OvertakenGrows ==
  ASSUME TypeOK, [Next]_vars, NEW j \in Jobs
  PROVE  /\ overtaken[j] \in Nat /\ overtaken'[j] \in {overtaken[j], overtaken[j] + 1}
         /\ Reap /\ j \in StaleRows /\ attempts[j] \in AtWork(j)
               => overtaken'[j] = overtaken[j] + 1
  <1>1. overtaken[j] \in Nat
    BY DEF TypeOK
  <1>2. CASE Reap
    BY <1>1, <1>2 DEF Reap
  <1>3. ASSUME NEW k \in Jobs, Enqueue(k) \/ BecomeDue(k) \/ LockAgesOn(k)
        PROVE  overtaken' = overtaken
    BY <1>3 DEF Enqueue, BecomeDue, LockAgesOn
  <1>4. ASSUME NEW w \in Workers,
               \/ Claim(w) \/ ClaimTimesOut(w) \/ LateClaim(w) \/ LateClaimLost(w)
               \/ Stop(w) \/ Restart(w)
        PROVE  overtaken' = overtaken
    BY <1>4 DEF Claim, ClaimTimesOut, LateClaim, LateClaimLost, Stop, Restart
  <1>5. ASSUME NEW t \in tasks,
               Start(t) \/ HandlerEnds(t) \/ ReportDone(t) \/ ReportTimesOut(t)
        PROVE  overtaken' = overtaken
    BY <1>5 DEF Start, HandlerEnds, ReportDone, ReportTimesOut
  <1>6. ASSUME NEW r \in lateReports, LateReport(r) \/ LateReportLost(r)
        PROVE  overtaken' = overtaken
    BY <1>6 DEF LateReport, LateReportLost
  <1>7. UNCHANGED vars => overtaken' = overtaken
    BY DEF vars
  <1>8. Reap \/ overtaken' = overtaken
    BY <1>3, <1>4, <1>5, <1>6, <1>7 DEF Next
  <1>9. CASE ~Reap
    BY <1>1, <1>8, <1>9
  <1> QED BY <1>1, <1>2, <1>9

\* A set that gains no element, or one for one that leaves, does not grow.
LEMMA OneForOne ==
  ASSUME NEW S, NEW T, IsFiniteSet(S), NEW a, NEW b, T \subseteq (S \ {a}) \cup {b}
  PROVE  /\ a \in S => Cardinality(T) <= Cardinality(S)
         /\ Cardinality(T) <= Cardinality(S) + 1
  <1> DEFINE R == S \ {a}
  <1>1. /\ IsFiniteSet(R) /\ Cardinality(R) \in Nat /\ Cardinality(S) \in Nat
        /\ Cardinality(R) = IF a \in S THEN Cardinality(S) - 1 ELSE Cardinality(S)
    BY FS_RemoveElement, FS_CardinalityType
  <1>2. /\ IsFiniteSet(R \cup {b}) /\ Cardinality(R \cup {b}) \in Nat
        /\ Cardinality(R \cup {b}) \in {Cardinality(R), Cardinality(R) + 1}
    BY <1>1, FS_AddElement, FS_CardinalityType
  <1>3. Cardinality(T) \in Nat /\ Cardinality(T) <= Cardinality(R \cup {b})
    BY <1>2, FS_Subset, FS_CardinalityType
  <1> QED BY <1>1, <1>2, <1>3

\* While a row keeps running, starts running or does not run, no further attempt is
\* left behind.
LEMMA NoneLeftBehind ==
  ASSUME ExecInv, ExecInv', [Next]_vars, NEW j \in Jobs,
         ~(status[j] = "running" /\ status'[j] # "running")
  PROVE  LeftBehind(j)' \subseteq LeftBehind(j)
  <1> USE DEF ExecInv
  <1> SUFFICES ASSUME NEW a \in LeftBehind(j)'
               PROVE  a \in LeftBehind(j)
    OBVIOUS
  <1>1. /\ attempts[j] \in Nat
        /\ attempts'[j] \in {attempts[j], attempts[j] + 1}
        /\ attempts'[j] # attempts[j] => status[j] # "running" /\ status'[j] = "running"
    BY AttemptsGrow
  <1>2. a \in 1 .. attempts'[j] /\ Held(j, a)' /\ (status'[j] = "running" => a # attempts'[j])
    BY DEF LeftBehind
  <1>3. a \in 1 .. attempts[j]
    BY <1>1, <1>2
  <1>4. Held(j, a)
    BY <1>2, <1>3, HeldShrinks
  <1> QED BY <1>1, <1>2, <1>3, <1>4 DEF LeftBehind

\* Every action keeps the executions left behind within the reaps that caused them: a
\* report that ends an overtaken attempt leaves at most the current one behind.
LEMMA NextKeepsOverlap ==
  ASSUME ExecInv, ExecInv', OverlapInv, [Next]_vars
  PROVE  OverlapInv'
  <1> USE DEF ExecInv
  <1> SUFFICES ASSUME NEW j \in Jobs
               PROVE  Cardinality(LeftBehind(j)') <= overtaken'[j]
    BY DEF OverlapInv
  <1> DEFINE S == LeftBehind(j)
  <1>1. /\ IsFiniteSet(S) /\ Cardinality(S) \in Nat /\ attempts[j] \in Nat
        /\ Cardinality(S) <= overtaken[j]
    BY LeftBehindIsFinite DEF OverlapInv
  <1>2. Cardinality(S') \in Nat
    <2>1. IsFiniteSet(S)' /\ (Cardinality(S) \in Nat)'
      BY LeftBehindIsFinite, PTL
    <2> QED BY <2>1
  <1>3. overtaken[j] \in Nat /\ overtaken'[j] \in {overtaken[j], overtaken[j] + 1}
    BY OvertakenGrows
  <1>4. ASSUME S' \subseteq S
        PROVE  Cardinality(S') <= overtaken'[j]
    <2>1. Cardinality(S') <= Cardinality(S)
      BY <1>1, <1>4, FS_Subset
    <2> QED BY <1>1, <1>2, <1>3, <2>1
  <1>5. CASE ~(status[j] = "running" /\ status'[j] # "running")
    BY <1>4, <1>5, NoneLeftBehind
  <1>6. CASE status[j] = "running" /\ status'[j] # "running"
    <2>1. attempts'[j] = attempts[j]
      BY <1>6, AttemptsGrow
    <2>2. \A a \in S' : a \in 1 .. attempts[j] /\ Held(j, a) /\ Held(j, a)'
      BY <2>1, HeldShrinks DEF LeftBehind
    <2>3. \A a \in S' : a \in S \/ a = attempts[j]
      BY <2>2 DEF LeftBehind
    <2>4. CASE Reap /\ j \in StaleRows
      <3>1. CASE attempts[j] \in AtWork(j)
        <4>1. overtaken'[j] = overtaken[j] + 1
          BY <2>4, <3>1, OvertakenGrows
        <4>2. attempts[j] \notin S
          BY <1>6 DEF LeftBehind
        <4>3. Cardinality(S') <= Cardinality(S) + 1
          BY <1>1, <2>3, <4>2, OneForOne
        <4> QED BY <1>1, <1>2, <1>3, <4>1, <4>3
      <3>2. CASE attempts[j] \notin AtWork(j)
        <4>1. ~Held(j, attempts[j])
          BY <3>2, AtWorkIsHeld
        <4> QED BY <1>4, <2>2, <2>3, <4>1
      <3> QED BY <3>1, <3>2
    <2>5. CASE \/ \E t \in tasks : ReportDone(t) /\ t.job = j
               \/ \E r \in lateReports : LateReport(r) /\ r.job = j
      <3>1. PICK a \in 1 .. attempts[j] : Held(j, a) /\ ~Held(j, a)'
        BY <2>5, ReportIsSpent
      <3>2. a \notin S'
        BY <2>2, <3>1
      <3>3. CASE a = attempts[j]
        BY <1>4, <2>3, <3>2, <3>3
      <3>4. CASE a # attempts[j]
        <4>1. a \in S
          BY <3>1, <3>4 DEF LeftBehind
        <4>2. S' \subseteq (S \ {a}) \cup {attempts[j]}
          BY <2>3, <3>2
        <4>3. Cardinality(S') <= Cardinality(S)
          BY <1>1, <4>1, <4>2, OneForOne
        <4> QED BY <1>1, <1>2, <1>3, <4>3
      <3> QED BY <3>3, <3>4
    <2> QED BY <1>6, <2>4, <2>5, WhoMovesAJob
  <1> QED BY <1>5, <1>6

\* Executions of one job overlap only when the reaper takes the row of one that is at
\* work: at most one more at a time for each time it does, for any handler duration,
\* any wait for the semaphore and any late, lost or repeated call.
THEOREM OverlapsCostReaps == Spec => []OverlapNeedsReap
  <1>1. Init => OverlapInv
    <2> SUFFICES ASSUME Init, NEW j \in Jobs
                 PROVE  Cardinality(LeftBehind(j)) <= overtaken[j]
      BY DEF OverlapInv
    <2>1. LeftBehind(j) = {}
      BY DEF Init, LeftBehind, Held
    <2> QED BY <2>1, FS_EmptySet DEF Init
  <1>2. ExecInv /\ ExecInv' /\ OverlapInv /\ [Next]_vars => OverlapInv'
    BY NextKeepsOverlap
  <1>3. ExecInv /\ OverlapInv => OverlapNeedsReap
    <2> SUFFICES ASSUME ExecInv, OverlapInv, NEW j \in Jobs
                 PROVE  Cardinality(AtWork(j)) <= 1 + overtaken[j]
      BY DEF OverlapNeedsReap
    <2>1. /\ IsFiniteSet(LeftBehind(j)) /\ Cardinality(LeftBehind(j)) \in Nat
          /\ Cardinality(LeftBehind(j)) <= overtaken[j] /\ overtaken[j] \in Nat
      BY LeftBehindIsFinite DEF OverlapInv, ExecInv, TypeOK
    <2>2. /\ IsFiniteSet(LeftBehind(j) \cup {attempts[j]})
          /\ Cardinality(LeftBehind(j) \cup {attempts[j]}) <= Cardinality(LeftBehind(j)) + 1
      <3>1. /\ IsFiniteSet(LeftBehind(j) \cup {attempts[j]})
            /\ Cardinality(LeftBehind(j) \cup {attempts[j]})
                 \in {Cardinality(LeftBehind(j)), Cardinality(LeftBehind(j)) + 1}
        BY <2>1, FS_AddElement
      <3> QED BY <2>1, <3>1
    <2>3. Cardinality(AtWork(j)) <= Cardinality(LeftBehind(j) \cup {attempts[j]})
      BY <2>2, AtWorkIsHeld, FS_Subset
    <2>4. Cardinality(AtWork(j)) \in Nat /\ Cardinality(LeftBehind(j) \cup {attempts[j]}) \in Nat
      BY <2>2, AtWorkIsHeld, FS_Subset, FS_CardinalityType
    <2> QED BY <2>1, <2>2, <2>3, <2>4
  <1> QED BY <1>1, <1>2, <1>3, ExecutionsAreSound, PTL DEF Spec

-----------------------------------------------------------------------------
(* Under PromptHandlers the queue keeps to the state diagram.              *)

\* With PromptHandlers, every action keeps the row locked by its only worker for as
\* long as anything works on the job.
LEMMA NextKeepsPrompt ==
  ASSUME ExecInv, PromptInv, PromptHandlers, [Next]_vars
  PROVE  PromptInv'
  <1> USE DEF ExecInv
  <1>1. ASSUME NEW j \in Jobs, Enqueue(j)
        PROVE  PromptInv'
    <2>1. Working(j) => status[j] = "running"
      BY DEF PromptInv, Working
    <2>2. UNCHANGED <<attempts, lockAge, tasks, lateReports>>
      BY <1>1 DEF Enqueue, EnqueueRow, rows
    <2>3. \A k \in Jobs : status[k] = "running" => status'[k] = "running"
      BY <1>1 DEF Enqueue, EnqueueRow, rows, TypeOK
    <2> QED BY <2>2, <2>3 DEF PromptInv, Working, TypeOK, Task, Report
  <1>2. CASE UNCHANGED <<status, attempts, lockAge>> /\ tasks' \subseteq tasks
             /\ lateReports' \subseteq lateReports
    BY <1>2 DEF PromptInv, Working, TypeOK, Task, Report
  <1>3. ASSUME NEW j \in Jobs, BecomeDue(j)
        PROVE  PromptInv'
    BY <1>2, <1>3 DEF BecomeDue
  <1>4. ASSUME NEW j \in Jobs, LockAgesOn(j)
        PROVE  PromptInv'
    <2>1. lockAge' = [lockAge EXCEPT ![j] = lockAge[j] + 1]
          /\ UNCHANGED <<status, attempts, tasks, lateReports>>
      BY <1>4 DEF LockAgesOn
    <2>2. \A k \in Jobs : lockAge'[k] = Stale => ~Working(k)
      BY <1>4, <2>1 DEF LockAgesOn, PromptInv, TypeOK
    <2> QED BY <2>1, <2>2 DEF PromptInv, Working
  <1>5. ASSUME NEW w \in Workers, NEW B \in Batches, ClaimRows(w, B),
               lateReports' = lateReports,
               \A t \in tasks' : \/ t \in tasks
                                 \/ t.job \in B /\ t.attempt = attempts[t.job] + 1
        PROVE  PromptInv'
    <2>1. B \subseteq Jobs /\ \A j \in B : status[j] \in {"queued", "retry"}
      BY DEF Batches, Claimable
    <2>2. \A j \in B : ~Working(j)
      BY <2>1 DEF PromptInv, Working
    <2>3. \A j \in Jobs : IF j \in B
                          THEN /\ status'[j] = "running" /\ lockAge'[j] = 0
                               /\ attempts'[j] = attempts[j] + 1
                          ELSE /\ status'[j] = status[j] /\ lockAge'[j] = lockAge[j]
                               /\ attempts'[j] = attempts[j]
      BY <1>5 DEF ClaimRows
    <2>4. /\ \A t \in tasks : t.job \in Jobs /\ t.job \notin B
          /\ \A r \in lateReports : r.job \in Jobs /\ r.job \notin B
      BY <2>2 DEF Working, TypeOK, Task, Report
    <2>5. \A j \in Jobs : lockAge'[j] = Stale => ~Working(j)'
      BY <1>5, <2>3 DEF PromptInv, Working, Stale
    <2> QED BY <1>5, <2>1, <2>3, <2>4, <2>5 DEF PromptInv
  <1>6. ASSUME NEW w \in Workers, Claim(w)
        PROVE  PromptInv'
    BY <1>5, <1>6, ClaimedTasks DEF Claim
  <1>7. ASSUME NEW w \in Workers, LateClaim(w)
        PROVE  PromptInv'
    BY <1>5, <1>7 DEF LateClaim
  <1>8. ASSUME NEW w \in Workers, ClaimTimesOut(w) \/ LateClaimLost(w) \/ Restart(w)
        PROVE  PromptInv'
    BY <1>2, <1>8 DEF ClaimTimesOut, LateClaimLost, Restart, rows
  <1>9. ASSUME UNCHANGED <<status, attempts, lockAge>>,
               \A t \in tasks' : \E u \in tasks : t.job = u.job /\ t.attempt = u.attempt,
               \A r \in lateReports' :
                  \/ r \in lateReports
                  \/ \E u \in tasks : r.job = u.job /\ r.attempt = u.attempt
        PROVE  PromptInv'
    BY <1>9 DEF PromptInv, Working, TypeOK, Task, Report
  <1>10. ASSUME NEW w \in Workers, Stop(w)
         PROVE  PromptInv'
    <2>1. \A t \in tasks : Abandoned(t).job = t.job /\ Abandoned(t).attempt = t.attempt
      BY DEF Abandoned
    <2> QED BY <1>9, <1>10, <2>1 DEF Stop, rows
  <1>11. ASSUME NEW t \in tasks, Start(t) \/ HandlerEnds(t) \/ ReportTimesOut(t)
         PROVE  PromptInv'
    <2>1. Abandoned(t).job = t.job /\ Abandoned(t).attempt = t.attempt
      BY DEF Abandoned
    <2>2. \A u \in tasks' : u \in tasks \/ (u.job = t.job /\ u.attempt = t.attempt)
      BY <1>11 DEF Start, HandlerEnds, ReportTimesOut, TypeOK, Task
    <2>3. \A r \in lateReports' : r \in lateReports \/ r = Abandoned(t)
      BY <1>11 DEF Start, HandlerEnds, ReportTimesOut
    <2>4. UNCHANGED <<status, attempts, lockAge>>
      BY <1>11 DEF Start, HandlerEnds, ReportTimesOut, rows
    <2> QED BY <1>9, <2>1, <2>2, <2>3, <2>4
  <1>12. ASSUME NEW j \in Jobs, NEW o \in Outcomes, ReportRow(j, o),
                tasks' \subseteq tasks, lateReports' \subseteq lateReports,
                ~Working(j)'
         PROVE  PromptInv'
    <2>1. \A k \in Jobs \ {j} : status'[k] = status[k] /\ lockAge'[k] = lockAge[k]
      BY <1>12 DEF ReportRow, CompleteRow, FailRow, TypeOK
    <2>2. attempts' = attempts
      BY <1>12 DEF ReportRow, CompleteRow, FailRow
    <2>3. /\ \A t \in tasks' : t.job \in Jobs \ {j}
          /\ \A r \in lateReports' : r.job \in Jobs \ {j}
      BY <1>12 DEF Working, TypeOK, Task, Report
    <2> QED BY <1>12, <2>1, <2>2, <2>3 DEF PromptInv, Working
  <1>13. ASSUME NEW t \in tasks, ReportDone(t)
         PROVE  PromptInv'
    <2>1. t.job \in Jobs
      BY DEF TypeOK, Task
    <2>2. ~Working(t.job)'
      BY <1>13 DEF ReportDone, Working, PromptInv, OneExecution
    <2> QED BY <1>12, <1>13, <2>1, <2>2 DEF ReportDone
  <1>14. ASSUME NEW r \in lateReports, LateReport(r)
         PROVE  PromptInv'
    <2>1. r.job \in Jobs /\ r.outcome \in Outcomes
      BY DEF TypeOK, Report
    <2>2. ~Working(r.job)'
      BY <1>14 DEF LateReport, Working, PromptInv, OneExecution
    <2> QED BY <1>12, <1>14, <2>1, <2>2 DEF LateReport
  <1>15. ASSUME NEW r \in lateReports, LateReportLost(r)
         PROVE  PromptInv'
    BY <1>2, <1>15 DEF LateReportLost, rows
  <1>16. CASE Reap
    <2>1. \A j \in StaleRows : j \in Jobs /\ ~Working(j)
      BY DEF StaleRows, PromptInv
    <2>2. /\ \A j \in Jobs \ StaleRows : status'[j] = status[j] /\ lockAge'[j] = lockAge[j]
          /\ \A j \in StaleRows : lockAge'[j] = 0
          /\ UNCHANGED <<attempts, tasks, lateReports>>
      BY <1>16, <2>1 DEF Reap, ReapRows
    <2>3. /\ \A t \in tasks : t.job \in Jobs \ StaleRows
          /\ \A r \in lateReports : r.job \in Jobs \ StaleRows
      BY <2>1 DEF Working, TypeOK, Task, Report
    <2> QED BY <2>2, <2>3 DEF PromptInv, Working, Stale
  <1>17. CASE UNCHANGED vars
    BY <1>2, <1>17 DEF vars
  <1> QED
    BY <1>1, <1>3, <1>4, <1>6, <1>7, <1>8, <1>10, <1>11, <1>13, <1>14, <1>15, <1>16, <1>17
       DEF Next

\* The invariant of the queue under PromptHandlers.
LEMMA PromptHolds == PromptHandlers => (Spec => [](ExecInv /\ PromptInv))
  <1> SUFFICES ASSUME PromptHandlers PROVE Spec => [](ExecInv /\ PromptInv)
    OBVIOUS
  <1>1. Init => PromptInv
    BY DEF Init, PromptInv, Working, Stale
  <1>2. ExecInv /\ PromptInv /\ [Next]_vars => PromptInv'
    BY NextKeepsPrompt
  <1> QED BY <1>1, <1>2, ExecutionsAreSound, PTL DEF Spec

\* What a step does to one job, as the diagram of JobLifecycle sees it.
LEMMA StepsFollowLifecycle ==
  ASSUME ExecInv, PromptInv, [Next]_vars
  PROVE  [Lifecycle!Next]_<<status, attempts>>
  <1> USE DEF ExecInv, Lifecycle!Next, Lifecycle!Moves, Lifecycle!Insert, Lifecycle!Run,
              Lifecycle!Succeed, Lifecycle!Retry, Lifecycle!Bury, Lifecycle!Stay
  <1>1. CASE UNCHANGED <<status, attempts>>
    BY <1>1
  <1>2. ASSUME NEW j \in Jobs, Enqueue(j)
        PROVE  Lifecycle!Next
    BY <1>2 DEF Enqueue, EnqueueRow, rows, TypeOK
  <1>3. ASSUME NEW w \in Workers, Claim(w) \/ LateClaim(w)
        PROVE  Lifecycle!Next
    BY <1>3 DEF Claim, LateClaim, ClaimRows, Batches, Claimable, RowInv, WaitingHasBudget
  <1>4. ASSUME NEW j \in Jobs, NEW o \in Outcomes, ReportRow(j, o), status[j] = "running"
        PROVE  Lifecycle!Next
    <2>1. attempts' = attempts
      BY <1>4 DEF ReportRow, CompleteRow, FailRow
    <2>2. \A k \in Jobs \ {j} : status'[k] = status[k]
      BY <1>4 DEF ReportRow, CompleteRow, FailRow, TypeOK
    <2>3. attempts[j] \in Nat /\ MaxAttempts \in Nat
      BY MaxAttemptsAssumption DEF TypeOK, Attempts
    <2>4. CASE CompleteRow(j)
      BY <2>1, <2>2, <2>4, <1>4 DEF CompleteRow, TypeOK
    <2>5. ASSUME NEW forceDead \in BOOLEAN, FailRow(j, forceDead)
          PROVE  Lifecycle!Next
      <3>1. CASE forceDead \/ attempts[j] >= MaxAttempts
        <4>1. status'[j] = "dead_letter"
          BY <2>5, <3>1 DEF FailRow, TypeOK
        <4> QED BY <1>4, <2>1, <2>2, <4>1
      <3>2. CASE ~(forceDead \/ attempts[j] >= MaxAttempts)
        <4>1. status'[j] = "retry" /\ attempts[j] < MaxAttempts
          BY <2>3, <2>5, <3>2 DEF FailRow, TypeOK
        <4> QED BY <1>4, <2>1, <2>2, <4>1
      <3> QED BY <3>1, <3>2
    <2> QED BY <1>4, <2>4, <2>5 DEF ReportRow
  <1>5. ASSUME NEW t \in tasks, ReportDone(t)
        PROVE  Lifecycle!Next
    <2>1. t.job \in Jobs /\ status[t.job] = "running"
      BY DEF PromptInv, TypeOK, Task
    <2> QED BY <1>4, <1>5, <2>1 DEF ReportDone
  <1>6. ASSUME NEW r \in lateReports, LateReport(r)
        PROVE  Lifecycle!Next
    <2>1. r.job \in Jobs /\ r.outcome \in Outcomes /\ status[r.job] = "running"
      BY DEF PromptInv, TypeOK, Report
    <2> QED BY <1>4, <1>6, <2>1 DEF LateReport
  <1>7. CASE Reap
    <2>1. \A j \in Jobs : attempts[j] \in Nat
      BY MaxAttemptsAssumption DEF TypeOK, Attempts
    <2> QED BY <1>7, <2>1, MaxAttemptsAssumption DEF Reap, ReapRows, StaleRows
  <1>8. ASSUME NEW j \in Jobs, BecomeDue(j) \/ LockAgesOn(j)
        PROVE  UNCHANGED <<status, attempts>>
    BY <1>8 DEF BecomeDue, LockAgesOn
  <1>9. ASSUME NEW w \in Workers,
               ClaimTimesOut(w) \/ LateClaimLost(w) \/ Stop(w) \/ Restart(w)
        PROVE  UNCHANGED <<status, attempts>>
    BY <1>9 DEF ClaimTimesOut, LateClaimLost, Stop, Restart, rows
  <1>10. ASSUME NEW t \in tasks, Start(t) \/ HandlerEnds(t) \/ ReportTimesOut(t)
         PROVE  UNCHANGED <<status, attempts>>
    BY <1>10 DEF Start, HandlerEnds, ReportTimesOut, rows
  <1>11. ASSUME NEW r \in lateReports, LateReportLost(r)
         PROVE  UNCHANGED <<status, attempts>>
    BY <1>11 DEF LateReportLost, rows
  <1>12. UNCHANGED vars => UNCHANGED <<status, attempts>>
    BY DEF vars
  <1> QED
    BY <1>1, <1>2, <1>3, <1>5, <1>6, <1>7, <1>8, <1>9, <1>10, <1>11, <1>12 DEF Next

\* Under the same assumption the queue implements the state diagram: a finished
\* job stays finished, and every other move is an arrow of the diagram.
THEOREM PromptQueueFollowsLifecycle == PromptHandlers => (Spec => FollowsLifecycle)
  <1> SUFFICES ASSUME PromptHandlers PROVE Spec => FollowsLifecycle
    OBVIOUS
  <1>1. Init => Lifecycle!Init
    BY DEF Init, Lifecycle!Init
  <1>2. ExecInv /\ PromptInv /\ [Next]_vars => [Lifecycle!Next]_<<status, attempts>>
    BY StepsFollowLifecycle
  <1>3. Spec => [](ExecInv /\ PromptInv)
    BY PromptHolds
  <1> QED BY <1>1, <1>2, <1>3, PTL DEF Spec, FollowsLifecycle, Lifecycle!Spec
=============================================================================
