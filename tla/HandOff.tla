-------------------------------- MODULE HandOff --------------------------------
(***************************************************************************)
(* One conversation when a person takes over, and when nobody answers:     *)
(* workers/handoff.py, what workers/followup_scheduler.py does before it    *)
(* fails, and the review of tasks in routes/tasks.py.                       *)
(*                                                                          *)
(* A follow-up asks whether the customer replied by way of job.raw, which   *)
(* Job has not.  Everything after that question never runs and is not here. *)
(***************************************************************************)
EXTENDS Execution

CONSTANTS
    HandOffs,      \* jobs of the queue human-handoff
    FollowUps      \* jobs of the queue follow-up-scheduler

Jobs == HandOffs \cup FollowUps
Steps == {"task", "status", "notify", "look", "report"}
\* A hand-off has no key for its task: each execution inserts one.
Tasks == HandOffs \X (1 .. MaxAttempts)

VARIABLES
    task,          \* tasks.status
    conversation,  \* conversations.status
    lead           \* "none", or whether the contact's latest lead is open or closed (won,
                   \* lost)

vars == <<job, faults, task, conversation, lead>>

Init ==
    /\ job = [k \in Jobs |-> Ready]
    /\ faults = 0
    /\ task = [t \in Tasks |-> "absent"]
    /\ conversation = "open"
    /\ lead \in {"none", "open"}

-----------------------------------------------------------------------------
(* The hand-off.                                                           *)

Start(k) ==
    /\ Claim(k, IF k \in HandOffs THEN "task" ELSE "look")
    /\ UNCHANGED <<task, conversation, lead>>

\* The job names no conversation, or one that is gone.
NoConversation(k) ==
    /\ job[k].at = "task"
    /\ Buries(k)
    /\ UNCHANGED <<task, conversation, lead>>

\* Mutant: a task that cannot be inserted is logged.
InsertTaskSwallows(k) ==
    /\ job[k].at = "task"
    /\ \/ task' = [task EXCEPT ![<<k, job[k].attempts>>] = "open"] /\ GoesOn(k, "status")
       \/ task' = task /\ Fault /\ job' = [job EXCEPT ![k].at = "status"]
    /\ UNCHANGED <<conversation, lead>>

\* Conversation and contact are read and the task inserted.
InsertTask(k) ==
    /\ job[k].at = "task"
    /\ task' = [task EXCEPT ![<<k, job[k].attempts>>] = "open"]
    /\ GoesOn(k, "status")
    /\ UNCHANGED <<conversation, lead>>

\* update_conversation; the event, and the mail, whose failure is logged, change
\* nothing that is followed here.
AwaitHuman(k) ==
    /\ job[k].at = "status"
    /\ conversation' = "awaiting_human"
    /\ GoesOn(k, "notify")
    /\ UNCHANGED <<task, lead>>

Notify(k) ==
    /\ job[k].at = "notify"
    /\ GoesOn(k, "report")
    /\ UNCHANGED <<task, conversation, lead>>

-----------------------------------------------------------------------------
\* A follow-up of a closed lead is done; any other raises, at every attempt.  (No code
\* ever closes a conversation.)
FollowUp(k) ==
    /\ job[k].at = "look"
    /\ IF lead = "closed" THEN GoesOn(k, "report") ELSE Raises(k)
    /\ UNCHANGED <<task, conversation, lead>>

-----------------------------------------------------------------------------
(* What else happens to the conversation.                                  *)

\* A classification that replied out of hours.
AwaitCustomer ==
    /\ conversation' = "awaiting_customer"
    /\ UNCHANGED <<job, faults, task, lead>>

\* update_lead.
LeadCloses ==
    /\ lead = "open"
    /\ lead' = "closed"
    /\ UNCHANGED <<job, faults, task, conversation>>

\* update_task: any status after any other.
UpdateTask(t) ==
    /\ task[t] # "absent"
    /\ \E s \in {"open", "done"} : task' = [task EXCEPT ![t] = s]
    /\ UNCHANGED <<job, faults, conversation, lead>>

Next ==
    \/ \E k \in Jobs :
          \/ Start(k)
          \/ NoConversation(k) \/ InsertTask(k) \/ AwaitHuman(k) \/ Notify(k)
          \/ FollowUp(k)
          \/ (StepFails(k) \/ Complete(k)) /\ UNCHANGED <<task, conversation, lead>>
    \/ AwaitCustomer \/ LeadCloses
    \/ \E t \in Tasks : UpdateTask(t)

Spec == Init /\ [][Next]_vars

-----------------------------------------------------------------------------
(* Properties.                                                             *)

\* Every variable keeps its type.
TypeOK ==
    /\ job \in [Jobs -> JobRows(Steps)]
    /\ faults \in 0 .. MaxFaults
    /\ task \in [Tasks -> {"absent", "open", "done"}]
    /\ conversation \in {"open", "awaiting_human", "awaiting_customer"}
    /\ lead \in {"none", "open", "closed"}

\* A hand-off that is done, or a conversation that awaits a person, has its task; a
\* second task for one hand-off (a person asked twice) needs a fault.
Of(k) == {t \in Tasks : t[1] = k /\ task[t] # "absent"}
HandOffHasItsTask ==
    /\ \A k \in HandOffs : /\ job[k].state = "done" => Of(k) # {}
                           /\ Cardinality(Of(k)) <= 1 + faults
    /\ conversation = "awaiting_human" => \E k \in HandOffs : Of(k) # {}
=============================================================================
