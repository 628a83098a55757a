------------------------------ MODULE Execution ------------------------------
(***************************************************************************)
(* How the queue runs a handler, as the components that consume it see it: *)
(* what JobLifecycle promises.  A job is executed once at a time and at     *)
(* most MaxAttempts times; whenever an execution raises, times out or dies *)
(* the job is run again from the start.  Every call that a handler awaits   *)
(* is a step of its own, and any of them may be the one that fails.         *)
(***************************************************************************)
EXTENDS Naturals, FiniteSets

CONSTANTS
    MaxAttempts,   \* queue_jobs.max_attempts
    MaxFaults,     \* bound on the calls that fail and processes that die
    Handlers       \* executions at a time: max_concurrency times the replicas

ASSUME ExecutionAssumption == {MaxAttempts, Handlers} \subseteq Nat \ {0} /\ MaxFaults \in Nat

VARIABLES
    job,           \* the queue_jobs rows by idempotency key: state, attempts, and
                   \* the next step of the handler
    faults

JobStates == {"absent", "ready", "running", "done", "dead"}
JobRows(Steps) == [state : JobStates, attempts : 0 .. MaxAttempts, at : Steps \cup {"idle"}]

Absent == [state |-> "absent", attempts |-> 0, at |-> "idle"]
Ready == [Absent EXCEPT !.state = "ready"]

\* enqueue_job on table q: a key that has a row keeps it.
Enqueued(q, k) == IF q[k].state = "absent" THEN [q EXCEPT ![k] = Ready] ELSE q

\* Mutant: one attempt too many.
FailedOneMore(q, k) ==
    [q EXCEPT ![k].state = IF q[k].attempts > MaxAttempts THEN "dead" ELSE "ready",
              ![k].at = "idle"]

\* fail_queue_job on table q.
Failed(q, k) ==
    [q EXCEPT ![k].state = IF q[k].attempts >= MaxAttempts THEN "dead" ELSE "ready",
              ![k].at = "idle"]

\* The status of a row, as JobLifecycle has it.
Status(k) ==
    CASE job[k].state = "ready" -> IF job[k].attempts = 0 THEN "queued" ELSE "retry"
      [] job[k].state = "done" -> "succeeded"
      [] job[k].state = "dead" -> "dead_letter"
      [] OTHER -> job[k].state

Running == {k \in DOMAIN job : job[k].state = "running"}

\* The queue starts an execution of k, whose first step is given.
Claim(k, step) ==
    /\ job[k].state = "ready"
    /\ Cardinality(Running) < Handlers
    /\ job' = [job EXCEPT ![k] = [state |-> "running", attempts |-> @.attempts + 1, at |-> step]]
    /\ faults' = faults

Fault == faults < MaxFaults /\ faults' = faults + 1

\* The handler's call was made and left the table q.  The handler goes on to the
\* next step, or never learns of the answer and has failed.
GoesOnWith(q, k, step) ==
    \/ job' = [q EXCEPT ![k].at = step] /\ faults' = faults
    \/ Fault /\ job' = Failed(q, k)
GoesOn(k, step) == GoesOnWith(job, k, step)

\* The call fails, or the process dies before making it.
StepFails(k) ==
    /\ job[k].at # "idle"
    /\ Fault
    /\ job' = Failed(job, k)

\* The handler raises, and would at every execution.
Raises(k) == job' = Failed(job, k) /\ faults' = faults

\* PermanentError.
Buries(k) == job' = [job EXCEPT ![k].state = "dead", ![k].at = "idle"] /\ faults' = faults

\* handle() returned: complete_queue_job.  (Its loss is StepFails: the job is reaped.)
Complete(k) ==
    /\ job[k].at = "report"
    /\ job' = [job EXCEPT ![k].state = "done", ![k].at = "idle"]
    /\ faults' = faults
=============================================================================
