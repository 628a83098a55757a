-------------------------------- MODULE Rollup --------------------------------
(***************************************************************************)
(* The daily numbers of a business: services/metrics_rollup.py, started by *)
(* the loop of services/scheduler.py and by POST /v1/metrics/rollup.        *)
(*                                                                          *)
(* A rollup reads some twenty counts one after another while the day goes   *)
(* on.  Followed here are the missed calls, which only grow, and three       *)
(* counts that are about the same leads: those qualified, those won, and     *)
(* those won after a quote's follow-up.  migrated says whether the database  *)
(* has the column tasks.task_type, by which two of the others select.        *)
(***************************************************************************)
EXTENDS Naturals, FiniteSets

CONSTANTS
    Leads,
    Rollups,       \* rollups that may be under way at a time
    MaxDays, MaxCalls   \* bounds on the days and on the missed calls of a day

Days == 1 .. MaxDays
\* leads.stage as the counts tell it apart: "contacted" and "lost" count as "new" does,
\* "qualified" and "booked" as "quoted" does.
Stages == {"new", "quoted", "won"}
Numbers == [missed : 0 .. MaxCalls, qualified : 0 .. Cardinality(Leads),
            wins : 0 .. Cardinality(Leads), recoveries : 0 .. Cardinality(Leads)]
NoNumbers == [missed |-> 0, qualified |-> 0, wins |-> 0, recoveries |-> 0]

VARIABLES
    migrated,
    today,
    calls,         \* the events inbound.call.missed of each day
    lead,          \* leads: stage, day of updated_at, and whether a follow-up of its
                   \* quote was sent
    snapshot,      \* metric_snapshots by metric_date; disturbed (history) if the leads
                   \* changed while it was read
    rollup         \* the rollups under way: their day, next read, numbers so far

vars == <<migrated, today, calls, lead, snapshot, rollup>>

Idle == [at |-> "idle", day |-> 1, numbers |-> NoNumbers, disturbed |-> FALSE]

Init ==
    /\ migrated \in BOOLEAN
    /\ today = 1
    /\ calls = [d \in Days |-> 0]
    /\ lead \in [Leads -> [stage : {"new"}, day : {1}, followed : BOOLEAN]]
    /\ snapshot = [d \in Days |-> [numbers |-> NoNumbers, disturbed |-> FALSE]]
    /\ rollup = [r \in Rollups |-> Idle]

-----------------------------------------------------------------------------
(* The counts, of what the tables hold now.                                *)

InStages(stages, d) == {l \in Leads : lead[l].stage \in stages /\ lead[l].day = d}
\* Mutant: a stage is left out.
QualifiedNotWon(d) == Cardinality(InStages({"quoted"}, d))
Qualified(d) == Cardinality(InStages({"quoted", "won"}, d))
Wins(d) == Cardinality(InStages({"won"}, d))
Recoveries(d) == Cardinality({l \in InStages({"won"}, d) : lead[l].followed})

-----------------------------------------------------------------------------
(* A rollup.                                                               *)

\* The loop rolls up today; the route any day.  (Nothing rolls up a day that is over.)
Start(r) ==
    /\ rollup[r].at = "idle"
    /\ \E d \in 1 .. today : rollup' = [rollup EXCEPT ![r] = [Idle EXCEPT !.at = "calls", !.day = d]]
    /\ UNCHANGED <<migrated, today, calls, lead, snapshot>>

Reads(r, at, next, numbers) ==
    /\ rollup[r].at = at
    /\ rollup' = [rollup EXCEPT ![r].at = next, ![r].numbers = numbers]
    /\ UNCHANGED <<migrated, today, calls, lead, snapshot>>

So(r) == rollup[r].numbers
Day(r) == rollup[r].day
ReadCalls(r) == Reads(r, "calls", "qualified", [So(r) EXCEPT !.missed = calls[Day(r)]])
ReadQualified(r) == Reads(r, "qualified", "wins", [So(r) EXCEPT !.qualified = Qualified(Day(r))])
ReadWins(r) == Reads(r, "wins", "tasks", [So(r) EXCEPT !.wins = Wins(Day(r))])
\* _count_tasks_by_type.
ReadTasks(r) == migrated /\ Reads(r, "tasks", "recoveries", So(r))
ReadRecoveries(r) ==
    Reads(r, "recoveries", "write", [So(r) EXCEPT !.recoveries = Recoveries(Day(r))])

\* A count that fails, as the tasks' does without the column, is logged, and the
\* business has no snapshot this time.
ReadFails(r) ==
    /\ rollup[r].at # "idle"
    /\ rollup' = [rollup EXCEPT ![r] = Idle]
    /\ UNCHANGED <<migrated, today, calls, lead, snapshot>>

\* The upsert replaces what the day had.
Write(r) ==
    /\ rollup[r].at = "write"
    /\ snapshot' = [snapshot EXCEPT ![Day(r)] = [numbers |-> So(r), disturbed |-> rollup[r].disturbed]]
    /\ rollup' = [rollup EXCEPT ![r] = Idle]
    /\ UNCHANGED <<migrated, today, calls, lead>>

-----------------------------------------------------------------------------
(* What is counted.                                                        *)

MissedCall ==
    /\ calls[today] < MaxCalls
    /\ calls' = [calls EXCEPT ![today] = @ + 1]
    /\ UNCHANGED <<migrated, today, lead, snapshot, rollup>>

\* Any update of a lead is an update of today.
UpdateLead(l) ==
    /\ \E s \in Stages : lead' = [lead EXCEPT ![l].stage = s, ![l].day = today]
    /\ rollup' = [r \in Rollups |-> IF rollup[r].at = "idle" THEN rollup[r]
                                    ELSE [rollup[r] EXCEPT !.disturbed = TRUE]]
    /\ UNCHANGED <<migrated, today, calls, snapshot>>

Midnight ==
    /\ today < MaxDays
    /\ today' = today + 1
    /\ UNCHANGED <<migrated, calls, lead, snapshot, rollup>>

Next ==
    \/ \E r \in Rollups :
          \/ Start(r) \/ ReadCalls(r) \/ ReadQualified(r) \/ ReadWins(r) \/ ReadTasks(r)
          \/ ReadRecoveries(r) \/ ReadFails(r) \/ Write(r)
    \/ MissedCall \/ Midnight
    \/ \E l \in Leads : UpdateLead(l)

Spec == Init /\ [][Next]_vars

-----------------------------------------------------------------------------
(* Properties.                                                             *)

\* Every variable keeps its type.
TypeOK ==
    /\ migrated \in BOOLEAN
    /\ today \in Days
    /\ calls \in [Days -> 0 .. MaxCalls]
    /\ lead \in [Leads -> [stage : Stages, day : Days, followed : BOOLEAN]]
    /\ snapshot \in [Days -> [numbers : Numbers, disturbed : BOOLEAN]]
    /\ rollup \in [Rollups -> [at : {"idle", "calls", "qualified", "wins", "tasks",
                                     "recoveries", "write"},
                               day : Days, numbers : Numbers, disturbed : BOOLEAN]]

\* The counts of a snapshot are read apart but are about one day: no lead is won that
\* is not qualified, or recovered that is not won, unless a lead was updated while
\* they were read.  No snapshot has calls the day has not.
SnapshotsAgree ==
    \A d \in Days :
        LET n == snapshot[d].numbers
        IN /\ ~snapshot[d].disturbed => n.recoveries <= n.wins /\ n.wins <= n.qualified
           /\ n.missed <= calls[d]
=============================================================================
