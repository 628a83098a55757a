---------------------------- MODULE JobLifecycle ----------------------------
(***************************************************************************)
(* What the queue promises of each job: the state diagram of               *)
(* ARCHITECTURE.md ("Job Lifecycle"), with the attempt budget the RPCs      *)
(* share.  There are no workers, locks, clocks or calls here.  A claim and  *)
(* the reaper move several jobs at once, so a step lets every job take a    *)
(* step of its own or stay.                                                *)
(***************************************************************************)
EXTENDS Naturals

CONSTANTS Jobs, MaxAttempts

VARIABLES status, attempts

Init ==
    /\ status = [j \in Jobs |-> "absent"]
    /\ attempts = [j \in Jobs |-> 0]

Moves(j, from, to) == status[j] \in from /\ status'[j] = to

\* [*] --> queued
Insert(j) ==
    /\ Moves(j, {"absent"}, "queued")
    /\ attempts'[j] = attempts[j]

\* queued --> running and retry --> running, while attempts remain
Run(j) ==
    /\ Moves(j, {"queued", "retry"}, "running")
    /\ attempts[j] < MaxAttempts
    /\ attempts'[j] = attempts[j] + 1

\* running --> succeeded
Succeed(j) ==
    /\ Moves(j, {"running"}, "succeeded")
    /\ attempts'[j] = attempts[j]

\* running --> retry, only if an attempt is left for it
Retry(j) ==
    /\ Moves(j, {"running"}, "retry")
    /\ attempts[j] < MaxAttempts
    /\ attempts'[j] = attempts[j]

\* running --> dead_letter
Bury(j) ==
    /\ Moves(j, {"running"}, "dead_letter")
    /\ attempts'[j] = attempts[j]

Stay(j) == status'[j] = status[j] /\ attempts'[j] = attempts[j]

Next ==
    \A j \in Jobs : Insert(j) \/ Run(j) \/ Succeed(j) \/ Retry(j) \/ Bury(j) \/ Stay(j)

Spec == Init /\ [][Next]_<<status, attempts>>
=============================================================================
