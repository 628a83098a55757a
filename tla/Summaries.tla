------------------------------- MODULE Summaries -------------------------------
(***************************************************************************)
(* The evening mail: _summary_loop of services/scheduler.py and             *)
(* services/daily_summary.py.  Every process of the API runs a loop of its   *)
(* own and remembers in a local variable whether it sent today; nothing      *)
(* reads the event summary.sent.  migrated as in Rollup: the mail's numbers  *)
(* are counted by tasks.task_type.                                          *)
(***************************************************************************)
EXTENDS Naturals, FiniteSets

CONSTANTS
    Loops,         \* processes of the API
    Businesses,    \* those with daily_summary_enabled
    MaxDays, MaxRestarts, MaxFaults   \* bounds

Days == 1 .. MaxDays

VARIABLES
    migrated,
    today, evening,    \* the date, and whether it is past 22:00 UTC
    lastSent,      \* last_sent_date of each loop, 0 for None
    left,          \* the businesses a loop has yet to mail, and how many it mailed
    mails,         \* mails sent to each business for each day
    restarts, faults

vars == <<migrated, today, evening, lastSent, left, mails, restarts, faults>>

Waiting == [businesses |-> {}, day |-> 0, count |-> 0]

Init ==
    /\ migrated \in BOOLEAN
    /\ today = 1
    /\ evening = FALSE
    /\ lastSent = [p \in Loops |-> 0]
    /\ left = [p \in Loops |-> Waiting]
    /\ mails = [m \in Businesses \X Days |-> 0]
    /\ restarts = 0
    /\ faults = 0

\* The loop wakes after 22:00 and has not sent today: run_daily_summaries.
Wake(p) ==
    /\ left[p] = Waiting
    /\ evening
    /\ lastSent[p] # today
    /\ left' = [left EXCEPT ![p] = [businesses |-> Businesses, day |-> today, count |-> 0]]
    /\ UNCHANGED <<migrated, today, evening, lastSent, mails, restarts, faults>>

\* send_daily_summary to one business after another.
Mail(p, b) ==
    /\ b \in left[p].businesses
    /\ migrated
    /\ mails' = [mails EXCEPT ![<<b, left[p].day>>] = @ + 1]
    /\ left' = [left EXCEPT ![p].businesses = @ \ {b}, ![p].count = @ + 1]
    /\ UNCHANGED <<migrated, today, evening, lastSent, restarts, faults>>

\* It has no address, its numbers cannot be read, or the mail is refused; or it is
\* delivered and the provider's answer lost.
MailFails(p, b) ==
    /\ b \in left[p].businesses
    /\ \/ UNCHANGED <<mails, faults>>
       \/ /\ migrated
          /\ faults < MaxFaults
          /\ faults' = faults + 1
          /\ mails' = [mails EXCEPT ![<<b, left[p].day>>] = @ + 1]
    /\ left' = [left EXCEPT ![p].businesses = @ \ {b}]
    /\ UNCHANGED <<migrated, today, evening, lastSent, restarts>>

\* Mutant: the day is done only if everyone was mailed.
AllOrNothing(p) ==
    /\ left[p].day # 0
    /\ left[p].businesses = {}
    /\ lastSent' = IF left[p].count = Cardinality(Businesses)
                   THEN [lastSent EXCEPT ![p] = left[p].day] ELSE lastSent
    /\ left' = [left EXCEPT ![p] = Waiting]
    /\ UNCHANGED <<migrated, today, evening, mails, restarts, faults>>

\* One mail is enough for the loop to be done with the day; with none it tries again
\* at its next interval.
Remember(p) ==
    /\ left[p].day # 0
    /\ left[p].businesses = {}
    /\ lastSent' = IF left[p].count > 0 THEN [lastSent EXCEPT ![p] = left[p].day] ELSE lastSent
    /\ left' = [left EXCEPT ![p] = Waiting]
    /\ UNCHANGED <<migrated, today, evening, mails, restarts, faults>>

\* stop_scheduler gives the loop five seconds, then cancels it; start_scheduler begins
\* anew.
Restart(p) ==
    /\ restarts < MaxRestarts
    /\ restarts' = restarts + 1
    /\ lastSent' = [lastSent EXCEPT ![p] = 0]
    /\ left' = [left EXCEPT ![p] = Waiting]
    /\ UNCHANGED <<migrated, today, evening, mails, faults>>

Clock ==
    /\ \/ ~evening /\ evening' = TRUE /\ today' = today
       \/ evening /\ today < MaxDays /\ today' = today + 1 /\ evening' = FALSE
    /\ UNCHANGED <<migrated, lastSent, left, mails, restarts, faults>>

Next ==
    \/ \E p \in Loops :
          \/ Wake(p) \/ Remember(p) \/ Restart(p)
          \/ \E b \in Businesses : Mail(p, b) \/ MailFails(p, b)
    \/ Clock

Spec == Init /\ [][Next]_vars

-----------------------------------------------------------------------------
(* Properties.                                                             *)

\* Every variable keeps its type.
TypeOK ==
    /\ {migrated, evening} \subseteq BOOLEAN
    /\ today \in Days
    /\ lastSent \in [Loops -> 0 .. MaxDays]
    /\ left \in [Loops -> [businesses : SUBSET Businesses, day : 0 .. MaxDays,
                           count : 0 .. Cardinality(Businesses)]]
    /\ mails \in [Businesses \X Days -> Nat]
    /\ restarts \in 0 .. MaxRestarts
    /\ faults \in 0 .. MaxFaults

\* A business gets the mail of a day once from each loop, and once more for each time
\* a loop was started anew or an answer was lost: nothing else repeats it, not even
\* the mails to others that were refused.
OneMailPerLoop ==
    \A m \in Businesses \X Days : mails[m] <= Cardinality(Loops) + restarts + faults
=============================================================================
