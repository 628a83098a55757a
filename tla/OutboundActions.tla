--------------------------- MODULE OutboundActions ---------------------------
(***************************************************************************)
(* The handler of the outbound-actions queue, workers/outbound_action.py,  *)
(* with its checks (lib/rate_limit.py, lib/hours.py) and the SMS adapter   *)
(* (providers/sms.py).  All jobs are for one contact of one business.      *)
(*                                                                          *)
(* Every await is a step; at each of them the handler may raise, time out  *)
(* or be killed, after which the queue runs it again from the start (one   *)
(* execution of a job at a time, as JobLifecycle has it).  The provider is *)
(* outside the database: a text it accepted cannot be taken back.          *)
(***************************************************************************)
EXTENDS Naturals, FiniteSets

CONSTANTS
    Requests,      \* the jobs that other workers and the API enqueued
    Kind,          \* the action of each: a text, a photo request, a quote, and
                   \* a quote whose payload has a lead_id
    Exempt,        \* texts that quiet hours do not hold back
    HasHours,      \* next_business_open finds an opening
    Handlers,      \* executions at a time: max_concurrency times the replicas
    MaxAttempts,   \* queue_jobs.max_attempts
    DailyCap,      \* businesses.settings.sms_daily_cap
    MaxDeferrals,  \* bound on how often quiet hours defer one request
    MaxDays,       \* bound on the midnights that pass
    MaxFaults      \* bound on the calls that fail and processes that die

Kinds == {"text", "photo", "quote", "leadQuote"}

ASSUME RequestsAssumption == Kind \in [Requests -> Kinds] /\ Exempt \subseteq Requests
ASSUME LimitsAssumption == /\ HasHours \in BOOLEAN
                           /\ {Handlers, MaxAttempts, DailyCap} \subseteq Nat \ {0}
                           /\ {MaxDeferrals, MaxDays, MaxFaults} \subseteq Nat

\* A job is a request and how often quiet hours have deferred it.
Jobs == Requests \X (0 .. MaxDeferrals)
KindOf(k) == Kind[k[1]]
Deferral(k) == <<k[1], k[2] + 1>>

JobStates == {"absent", "ready", "running", "done", "dead"}
Steps == {"idle", "load", "skip", "rate", "cap", "quiet", "defer", "send", "quoteSent",
          "message", "leadStage", "event", "report"}
Results == {"none", "sent", "optOut", "capped", "deferred", "noOpening"}

\* SmsSendResult.message_id: the provider's own, new for each text, or the one
\* the adapter makes of the number when the answer has none, or in a dry run.
MessageIds == {"own", "retell-sms", "dryrun-sms"}

VARIABLES
    job,         \* the queue_jobs row: state and attempts
    at,          \* the next step of its handler
    local,       \* what the handler holds: the text's message id, its result
    optedOut,    \* contacts.metadata.sms_opt_out
    texts,       \* how many texts the provider accepted for each job
    messages,    \* the outbound messages rows
    events,      \* the events rows
    recent,      \* the contact has an outbound.sms.sent event within the cooldown
    today,       \* the jobs with an outbound.sms.sent event of this day
    quoteSent,   \* the jobs whose quote has status sent
    subscribed,  \* history: the contact was subscribed since the job was claimed
    days, faults

vars == <<job, at, local, optedOut, texts, messages, events, recent, today, quoteSent,
          subscribed, days, faults>>
tables == <<texts, messages, events, recent, today, quoteSent>>
world == <<optedOut, subscribed, days>>

NoLocal == [id |-> "own", result |-> "none"]

Init ==
    /\ job = [k \in Jobs |-> [state |-> IF k[2] = 0 THEN "ready" ELSE "absent",
                              attempts |-> 0]]
    /\ at = [k \in Jobs |-> "idle"]
    /\ local = [k \in Jobs |-> NoLocal]
    /\ optedOut = FALSE
    /\ texts = [k \in Jobs |-> 0]
    /\ messages = {}
    /\ events = {}
    /\ recent = FALSE
    /\ today = {}
    /\ quoteSent = {}
    /\ subscribed = [k \in Jobs |-> FALSE]
    /\ days = 0
    /\ faults = 0

-----------------------------------------------------------------------------
(* The customer and the clock.                                             *)

Running == {k \in Jobs : job[k].state = "running"}

\* The inbound worker acts on a STOP or a START.
CustomerReplies ==
    /\ \E out \in BOOLEAN :
          /\ optedOut' = out
          /\ subscribed' = [k \in Jobs |-> subscribed[k] \/ ~out]
    /\ UNCHANGED <<job, at, local, tables, days, faults>>

CooldownPasses ==
    /\ recent
    /\ recent' = FALSE
    /\ UNCHANGED <<job, at, local, texts, messages, events, today, quoteSent, world, faults>>

Midnight ==
    /\ days < MaxDays
    /\ days' = days + 1
    /\ today' = {}
    /\ UNCHANGED <<job, at, local, texts, messages, events, recent, quoteSent,
                   optedOut, subscribed, faults>>

-----------------------------------------------------------------------------
(* The execution of a job.                                                 *)

Claim(k) ==
    /\ job[k].state = "ready"
    /\ Cardinality(Running) < Handlers
    /\ job' = [job EXCEPT ![k].state = "running", ![k].attempts = @ + 1]
    /\ at' = [at EXCEPT ![k] = "load"]
    /\ subscribed' = [subscribed EXCEPT ![k] = ~optedOut]
    /\ UNCHANGED <<local, optedOut, tables, days, faults>>

Ends(k, state) ==
    /\ job' = [job EXCEPT ![k].state = state]
    /\ at' = [at EXCEPT ![k] = "idle"]
    /\ local' = [local EXCEPT ![k] = NoLocal]

\* Mutant: the last attempt is counted wrong.
RaisesOneMore(k) == Ends(k, IF job[k].attempts > MaxAttempts THEN "dead" ELSE "ready")

\* The handler raised: a retry, or dead_letter after the last attempt.
Raises(k) == Ends(k, IF job[k].attempts >= MaxAttempts THEN "dead" ELSE "ready")

Fault == faults < MaxFaults /\ faults' = faults + 1

\* The call was made: the handler goes on, holding l, or never learns of it.
GoesOn(k, step, l) ==
    \/ /\ at' = [at EXCEPT ![k] = step]
       /\ local' = [local EXCEPT ![k] = l]
       /\ UNCHANGED <<job, faults>>
    \/ Fault /\ Raises(k)

\* The call fails, or the process dies before making it.
StepFails(k) ==
    /\ at[k] # "idle"
    /\ Fault
    /\ Raises(k)
    /\ UNCHANGED <<tables, world>>

Returns(k, result) == GoesOn(k, "report", [local[k] EXCEPT !.result = result])

\* Mutant: only texts look at sms_opt_out.
LoadTextsOnly(k) ==
    /\ at[k] = "load"
    /\ GoesOn(k, IF KindOf(k) # "text" THEN "send" ELSE IF optedOut THEN "skip" ELSE "rate",
              local[k])
    /\ UNCHANGED <<tables, world>>

\* The contact is read; sms_opt_out is looked at here and never again.
Load(k) ==
    /\ at[k] = "load"
    /\ GoesOn(k, IF optedOut THEN "skip" ELSE IF KindOf(k) = "text" THEN "rate" ELSE "send",
              local[k])
    /\ UNCHANGED <<tables, world>>

\* An opted-out contact: a text leaves an event, the other two nothing.
Skip(k) ==
    /\ at[k] = "skip"
    /\ events' = IF KindOf(k) = "text" THEN events \cup {<<"skip", k>>} ELSE events
    /\ Returns(k, "optOut")
    /\ UNCHANGED <<texts, messages, recent, today, quoteSent, world>>

\* check_sms_rate_limit finds nothing within the cooldown.
RateLimit(k) ==
    /\ at[k] = "rate"
    /\ ~recent
    /\ GoesOn(k, "cap", local[k])
    /\ UNCHANGED <<tables, world>>

\* It does: the handler would enqueue ob:defer:{job.id}, but p_available_at is an
\* SQL expression in a string, which is no timestamptz: the RPC raises.
RateLimited(k) ==
    /\ at[k] = "rate"
    /\ recent
    /\ Raises(k)
    /\ UNCHANGED <<tables, world, faults>>

\* Mutant: off by one.
CheckDailyCapLate(k) ==
    /\ at[k] = "cap"
    /\ \/ Cardinality(today) <= DailyCap /\ GoesOn(k, "quiet", local[k])
       \/ Cardinality(today) > DailyCap /\ Returns(k, "capped")
    /\ UNCHANGED <<tables, world>>

\* check_daily_cap counts this day's outbound.sms.sent events.
CheckDailyCap(k) ==
    /\ at[k] = "cap"
    /\ \/ Cardinality(today) < DailyCap /\ GoesOn(k, "quiet", local[k])
       \/ Cardinality(today) >= DailyCap /\ Returns(k, "capped")
    /\ UNCHANGED <<tables, world>>

\* is_quiet_hours, at whatever time it is, and next_business_open.
QuietHours(k) ==
    /\ at[k] = "quiet"
    /\ \/ GoesOn(k, "send", local[k])
       \/ k[1] \notin Exempt /\ HasHours /\ k[2] < MaxDeferrals /\ GoesOn(k, "defer", local[k])
       \/ k[1] \notin Exempt /\ ~HasHours /\ Returns(k, "noOpening")
    /\ UNCHANGED <<tables, world>>

\* Mutant: the deferral has the key of the job it defers.
EnqueuedUnderSameKey(k) == job

\* The queue after enqueue_job under ob:quiet:{job.id}.
Enqueued(k) ==
    IF job[Deferral(k)].state = "absent" THEN [job EXCEPT ![Deferral(k)].state = "ready"]
                                         ELSE job

\* The same text again, available when the business opens.
Defer(k) ==
    /\ at[k] = "defer"
    /\ \/ /\ job' = Enqueued(k)
          /\ at' = [at EXCEPT ![k] = "report"]
          /\ local' = [local EXCEPT ![k].result = "deferred"]
          /\ faults' = faults
       \/ /\ Fault
          /\ job' = [Enqueued(k) EXCEPT
                       ![k].state = IF job[k].attempts >= MaxAttempts THEN "dead" ELSE "ready"]
          /\ at' = [at EXCEPT ![k] = "idle"]
          /\ local' = [local EXCEPT ![k] = NoLocal]
    /\ UNCHANGED <<tables, world>>

\* The text cannot be made: no template, an empty body.  PermanentError.
Unrenderable(k) ==
    /\ at[k] = "send"
    /\ KindOf(k) = "text"
    /\ Fault
    /\ Ends(k, "dead")
    /\ UNCHANGED <<tables, world>>

\* send_sms_retell, and when Retell refuses or its answer is lost the fall-back to
\* Twilio, which may fail too: then nothing is raised, and the result is a dry
\* run's.  texts counts what the two accepted.
Answers == {[texts |-> 1, id |-> "own", ok |-> TRUE],
            [texts |-> 1, id |-> "retell-sms", ok |-> TRUE],
            [texts |-> 2, id |-> "own", ok |-> FALSE],
            [texts |-> 1, id |-> "own", ok |-> FALSE],
            [texts |-> 1, id |-> "dryrun-sms", ok |-> FALSE],
            [texts |-> 0, id |-> "dryrun-sms", ok |-> FALSE]}
AfterSend(k) == IF KindOf(k) \in {"quote", "leadQuote"} THEN "quoteSent" ELSE "message"
Send(k) ==
    /\ at[k] = "send"
    /\ \E a \in Answers :
          /\ texts' = [texts EXCEPT ![k] = @ + a.texts]
          /\ IF a.ok THEN GoesOn(k, AfterSend(k), [local[k] EXCEPT !.id = a.id])
                     ELSE /\ Fault
                          /\ at' = [at EXCEPT ![k] = AfterSend(k)]
                          /\ local' = [local EXCEPT ![k].id = a.id]
                          /\ job' = job
    /\ UNCHANGED <<messages, events, recent, today, quoteSent, world>>

\* The quote's status becomes sent, whatever it was.
QuoteSent(k) ==
    /\ at[k] = "quoteSent"
    /\ quoteSent' = quoteSent \cup {k}
    /\ GoesOn(k, "message", local[k])
    /\ UNCHANGED <<texts, messages, events, recent, today, world>>

\* insert_message: unique on (business, external_message_id) and on the key made
\* of the job's id.
Taken(k) ==
    \/ \E m \in messages : m.job = k
    \/ local[k].id # "own" /\ \E m \in messages : m.id = local[k].id
InsertMessage(k) ==
    /\ at[k] = "message"
    /\ ~Taken(k)
    /\ messages' = messages \cup {[job |-> k, id |-> local[k].id]}
    /\ GoesOn(k, IF KindOf(k) = "leadQuote" THEN "leadStage" ELSE "event", local[k])
    /\ UNCHANGED <<texts, events, recent, today, quoteSent, world>>

\* Mutant: a row with this id is taken for this job's.
MessageExistsGoesOn(k) ==
    /\ at[k] = "message"
    /\ Taken(k)
    /\ GoesOn(k, "event", local[k])
    /\ UNCHANGED <<tables, world>>

\* The insert raises.
MessageExists(k) ==
    /\ at[k] = "message"
    /\ Taken(k)
    /\ Raises(k)
    /\ UNCHANGED <<tables, world, faults>>

\* advance_lead_stage writes "proposal", which the enum lead_stage lacks: the
\* update raises, and what comes after it (the event, the follow-up) is not reached.
LeadStage(k) ==
    /\ at[k] = "leadStage"
    /\ Raises(k)
    /\ UNCHANGED <<tables, world, faults>>

\* enqueue_event.  Only a text's event is one the limits count.
SentEvent(k) ==
    /\ at[k] = "event"
    /\ events' = events \cup {<<KindOf(k), k>>}
    /\ IF KindOf(k) = "text" THEN recent' = TRUE /\ today' = today \cup {k}
                             ELSE UNCHANGED <<recent, today>>
    /\ Returns(k, "sent")
    /\ UNCHANGED <<texts, messages, quoteSent, world>>

\* complete_queue_job.
Complete(k) ==
    /\ at[k] = "report"
    /\ job' = [job EXCEPT ![k].state = "done"]
    /\ at' = [at EXCEPT ![k] = "idle"]
    /\ UNCHANGED <<local, tables, world, faults>>

-----------------------------------------------------------------------------
Handler(k) ==
    \/ Load(k) \/ Skip(k)
    \/ RateLimit(k) \/ RateLimited(k) \/ CheckDailyCap(k)
    \/ QuietHours(k) \/ Defer(k)
    \/ Unrenderable(k) \/ Send(k)
    \/ QuoteSent(k) \/ InsertMessage(k) \/ MessageExists(k)
    \/ LeadStage(k) \/ SentEvent(k) \/ Complete(k)

Next ==
    \/ CustomerReplies \/ CooldownPasses \/ Midnight
    \/ \E k \in Jobs : Claim(k) \/ Handler(k) \/ StepFails(k)

Spec == Init /\ [][Next]_vars

-----------------------------------------------------------------------------
(* Properties.                                                             *)

\* Every variable keeps its type: no job is run, nor its customer texted, more
\* often than its attempts allow.
TypeOK ==
    /\ job \in [Jobs -> [state : JobStates, attempts : 0 .. MaxAttempts]]
    /\ at \in [Jobs -> Steps]
    /\ local \in [Jobs -> [id : MessageIds, result : Results]]
    /\ {optedOut, recent} \subseteq BOOLEAN
    /\ texts \in [Jobs -> 0 .. 2 * MaxAttempts]
    /\ messages \subseteq [job : Jobs, id : MessageIds]
    /\ events \subseteq (Kinds \cup {"skip"}) \X Jobs
    /\ {today, quoteSent} \subseteq SUBSET Jobs
    /\ subscribed \in [Jobs -> BOOLEAN]
    /\ days \in 0 .. MaxDays
    /\ faults \in 0 .. MaxFaults

\* The result a finished job reports is what happened: a text sent has its message
\* and its event, one skipped for a STOP its event, and a deferred one is carried
\* by another job, so that no text is lost between two jobs.
ResultIsTrue ==
    \A k \in Jobs : job[k].state = "done" =>
        CASE local[k].result = "sent" ->
                /\ \E m \in messages : m.job = k
                /\ <<KindOf(k), k>> \in events
          [] local[k].result = "optOut" -> KindOf(k) = "text" => <<"skip", k>> \in events
          [] local[k].result = "deferred" -> job[Deferral(k)].state # "absent"
          [] OTHER -> local[k].result \in {"capped", "noOpening"}

\* What the limits count is in the conversation: an event of a sent text has its
\* message row, whatever ids the provider gives its texts.
CountedIsRecorded ==
    \A k \in Jobs : <<KindOf(k), k>> \in events => \E m \in messages : m.job = k

\* check_daily_cap is read long before the event it counts is written.  The cap is
\* overshot by what can be under way meanwhile and no more.
DailyCapHolds == Cardinality(today) <= DailyCap + Handlers - 1

\* The opt-out is read once per execution: a text that leaves although the contact
\* opted out belongs to an execution that began before.
NoTextAfterOptOut ==
    [][\A k \in Jobs : texts'[k] > texts[k] => subscribed[k]]_vars

\* PHASE_2_CHECKLIST.md: one SMS per contact per 120 seconds.  No text leaves while
\* the contact has one within the cooldown.
CooldownKept ==
    [][recent => \A k \in Jobs : KindOf(k) = "text" => texts'[k] = texts[k]]_vars
=============================================================================
