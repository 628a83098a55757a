--------------------------- MODULE ExecutionProofs ---------------------------
(***************************************************************************)
(* What the operations of Execution do to the table of jobs, whatever its   *)
(* keys are and whatever steps the handlers have.  The proofs about the     *)
(* components that the queue runs rest on these lemmas.                     *)
(***************************************************************************)
EXTENDS Execution, FiniteSetTheorems, TLAPS

\* A row that the queue can have given a job.
Sound(row) ==
    /\ row.state = "absent" => row.attempts = 0
    /\ row.state = "ready" => row.attempts < MaxAttempts
    /\ row.state = "running" <=> row.at # "idle"
    /\ row.at # "idle" => row.attempts >= 1

\* Row r has become row s: the handler is at step, ...
At(r, s, step) == s.state = r.state /\ s.attempts = r.attempts /\ s.at = step

\* ... or the execution failed, and the job is retried while it has attempts left.
Fell(r, s) ==
    /\ s.state \in {"ready", "dead"} /\ s.attempts = r.attempts /\ s.at = "idle"
    /\ s.state = "ready" => r.attempts < MaxAttempts

\* Only the row of k differs from table q.
OnlyOf(q, k) == \A i \in DOMAIN q : i # k => job'[i] = q[i]

\* The execution of k failed on table q.
LEMMA Failing ==
  ASSUME NEW Keys, NEW S, NEW q \in [Keys -> JobRows(S)], NEW k \in Keys,
         job' = Failed(q, k)
  PROVE  job' \in [Keys -> JobRows(S)] /\ OnlyOf(q, k) /\ Fell(q[k], job'[k])
  <1> DEFINE state == IF q[k].attempts >= MaxAttempts THEN "dead" ELSE "ready"
  <1>1. /\ state \in {"ready", "dead"} /\ state \in JobStates
        /\ state = "ready" => q[k].attempts < MaxAttempts
    BY ExecutionAssumption DEF JobRows, JobStates
  <1>3. job' = [q EXCEPT ![k].state = state, ![k].at = "idle"]
    BY DEF Failed
  <1> HIDE DEF state
  <1>4. job' \in [Keys -> JobRows(S)]
    BY <1>1, <1>3 DEF JobRows
  <1>5. OnlyOf(q, k)
    BY <1>3 DEF OnlyOf
  <1>6. job'[k].state = state /\ job'[k].attempts = q[k].attempts /\ job'[k].at = "idle"
    BY <1>3 DEF JobRows
  <1> QED BY <1>1, <1>4, <1>5, <1>6 DEF Fell

\* A handler that goes on is at its next step, or has failed at the cost of a fault.
LEMMA GoingOnWith ==
  ASSUME NEW Keys, NEW S, NEW q \in [Keys -> JobRows(S)], NEW k \in Keys,
         NEW step \in S, faults \in 0 .. MaxFaults, GoesOnWith(q, k, step)
  PROVE  /\ job' \in [Keys -> JobRows(S)] /\ faults' \in 0 .. MaxFaults
         /\ OnlyOf(q, k)
         /\ \/ faults' = faults /\ At(q[k], job'[k], step)
            \/ faults' = faults + 1 /\ Fell(q[k], job'[k])
  <1>1. CASE job' = [q EXCEPT ![k].at = step] /\ faults' = faults
    BY <1>1 DEF JobRows, OnlyOf, At
  <1>2. CASE Fault /\ job' = Failed(q, k)
    BY <1>2, Failing, ExecutionAssumption DEF Fault
  <1> QED BY <1>1, <1>2 DEF GoesOnWith

\* The same on the table as it is.
LEMMA GoingOn ==
  ASSUME NEW Keys, NEW S, job \in [Keys -> JobRows(S)], NEW k \in Keys,
         NEW step \in S, faults \in 0 .. MaxFaults, GoesOn(k, step)
  PROVE  /\ job' \in [Keys -> JobRows(S)] /\ faults' \in 0 .. MaxFaults
         /\ OnlyOf(job, k)
         /\ \/ faults' = faults /\ At(job[k], job'[k], step)
            \/ faults' = faults + 1 /\ Fell(job[k], job'[k])
  BY GoingOnWith DEF GoesOn

\* A call that fails costs a fault.
LEMMA StepFailing ==
  ASSUME NEW Keys, NEW S, job \in [Keys -> JobRows(S)], NEW k \in Keys,
         faults \in 0 .. MaxFaults, StepFails(k)
  PROVE  /\ job' \in [Keys -> JobRows(S)] /\ faults' \in 0 .. MaxFaults
         /\ OnlyOf(job, k)
         /\ faults' = faults + 1 /\ Fell(job[k], job'[k])
  BY Failing, ExecutionAssumption DEF StepFails, Fault

\* A claim is a new attempt.
LEMMA Claiming ==
  ASSUME NEW Keys, NEW S, job \in [Keys -> JobRows(S)], NEW k \in Keys,
         NEW step \in S, Sound(job[k]), Claim(k, step)
  PROVE  /\ job' \in [Keys -> JobRows(S)] /\ faults' = faults
         /\ OnlyOf(job, k)
         /\ job[k].state = "ready" /\ job[k].at = "idle"
         /\ job'[k] = [state |-> "running", attempts |-> job[k].attempts + 1, at |-> step]
  BY ExecutionAssumption DEF Claim, JobRows, JobStates, OnlyOf, Sound

\* A job whose handler returned is done.
LEMMA Completing ==
  ASSUME NEW Keys, NEW S, job \in [Keys -> JobRows(S)], NEW k \in Keys, Complete(k)
  PROVE  /\ job' \in [Keys -> JobRows(S)] /\ faults' = faults
         /\ OnlyOf(job, k)
         /\ job[k].at = "report"
         /\ job'[k] = [state |-> "done", attempts |-> job[k].attempts, at |-> "idle"]
  BY DEF Complete, JobRows, JobStates, OnlyOf

\* Enqueuing a key changes an absent row only.
LEMMA Enqueuing ==
  ASSUME NEW Keys, NEW S, NEW q \in [Keys -> JobRows(S)], NEW k \in Keys
  PROVE  /\ Enqueued(q, k) \in [Keys -> JobRows(S)]
         /\ \A i \in Keys : i # k \/ q[k].state # "absent" => Enqueued(q, k)[i] = q[i]
         /\ q[k].state = "absent" => Enqueued(q, k)[k] = Ready
         /\ Enqueued(q, k)[k].state # "absent"
         /\ Ready = [state |-> "ready", attempts |-> 0, at |-> "idle"]
  <1>1. Ready = [state |-> "ready", attempts |-> 0, at |-> "idle"]
    BY DEF Ready, Absent
  <1>2. Ready \in JobRows(S)
    BY <1>1, ExecutionAssumption DEF JobRows, JobStates
  <1> QED BY <1>1, <1>2 DEF Enqueued

\* A job's row stays sound while its handler goes on, fails, or is claimed.
LEMMA SoundRows ==
  ASSUME NEW S, NEW r \in JobRows(S), NEW s \in JobRows(S), Sound(r)
  PROVE  /\ \A step \in S : r.at # "idle" /\ step # "idle" /\ At(r, s, step) => Sound(s)
         /\ Fell(r, s) => Sound(s)
         /\ \A step \in S : step # "idle" /\ s.state = "running" /\ s.at = step
                            /\ s.attempts = r.attempts + 1 => Sound(s)
         /\ s.state = "done" /\ s.at = "idle" => Sound(s)
  BY DEF Sound, At, Fell, JobRows, JobStates

\* One element is added at the cost of a fault, or none.
LEMMA FaultsCount ==
  ASSUME NEW S, NEW T, IsFiniteSet(S), Cardinality(S) <= faults, faults \in Nat,
         faults' \in Nat, faults <= faults',
         \/ T \subseteq S
         \/ faults' = faults + 1 /\ \E x : T \subseteq S \cup {x}
  PROVE  IsFiniteSet(T) /\ Cardinality(T) <= faults'
  <1>1. Cardinality(S) \in Nat
    BY FS_CardinalityType
  <1>2. CASE T \subseteq S
    <2>1. IsFiniteSet(T) /\ Cardinality(T) <= Cardinality(S) /\ Cardinality(T) \in Nat
      BY <1>2, FS_Subset, FS_CardinalityType
    <2> QED BY <1>1, <2>1
  <1>3. ASSUME faults' = faults + 1, NEW x, T \subseteq S \cup {x}
        PROVE  IsFiniteSet(T) /\ Cardinality(T) <= faults'
    <2>1. /\ IsFiniteSet(S \cup {x})
          /\ Cardinality(S \cup {x}) = IF x \in S THEN Cardinality(S) ELSE Cardinality(S) + 1
      BY FS_AddElement
    <2>2. IsFiniteSet(T) /\ Cardinality(T) <= Cardinality(S \cup {x}) /\ Cardinality(T) \in Nat
      BY <1>3, <2>1, FS_Subset, FS_CardinalityType
    <2> QED BY <1>1, <1>3, <2>1, <2>2
  <1> QED BY <1>2, <1>3
=============================================================================
