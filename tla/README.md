# RevenueEdge: a TLA+ verification of the queue-driven core

RevenueEdge answers a small business's calls and chats. A webhook service turns
what the telephony provider reports into jobs of a database queue; Python
workers take the jobs, write contacts, conversations and messages, text the
customer, draft quotes, book appointments and hand over to people; an API and a
dashboard show and steer all of it. Everything that is hard about the program
lies between the steps: an execution is a chain of separate database and provider
calls, any of which may fail or outlive its caller, and the queue then runs the
whole chain again.

These modules model that behaviour from the source, TLC checks it on small
instances, and TLAPS proves for instances of any size all that the runs check of safety,
but for the time arithmetic.

- [Modules](#modules)
- [Inventory](#inventory)
- [How the models correspond to the code](#how-the-models-correspond-to-the-code)
- [What the runs check](#what-the-runs-check)
- [Where code and documentation disagree](#where-code-and-documentation-disagree)
- [Bounds](#bounds) and [fairness](#fairness)
- [Proofs](#proofs)
- [What is not modelled](#what-is-not-modelled)
- [Plan](#plan)

## Modules

| Module | What it is |
| --- | --- |
| `JobLifecycle` | Abstract specification of the queue: the state diagram of `ARCHITECTURE.md` with the attempt budget. |
| `JobQueue` | The queue RPCs, the `BaseWorker` loop, abandoned calls, crashes, the reaper. Implements `JobLifecycle` when no work outlives the reaper's threshold. |
| `JobQueueProofs`, `InboundProofs`, `OutboundProofs`, `AppointmentsProofs`, `QuotesProofs` | Theorems about `JobQueue`, `InboundEvents`, `OutboundActions`, `Appointments` and `Quotes`, checked by TLAPS. |
| `OfficeProofs`, `LibraryProofs` | Theorems about `Office`: those of its components, and those of `Library`, with the types of all. |
| `ExecutionProofs` | What the operations of `Execution` do to a table of jobs, whatever its keys: the lemmas that `AppointmentsProofs`, `QuotesProofs`, `OfficeProofs` and `LibraryProofs` build on. |
| `InboundEvents` | The Retell webhook and the inbound normalizer, one action per database call. |
| `OutboundActions` | The outbound action worker: opt-out, cooldown, daily cap, quiet hours, provider, message and event rows. |
| `Execution` | How the queue runs a handler, as its consumers see it. Extended by the five modules below it that consume a queue. |
| `Appointments` | The booking worker, the booking routes and the calendar events. |
| `Quotes` | Drafting, review, approval, decline, and what sending does to a quote. |
| `Intake` | The conversation-intelligence worker and its bridge to the leads. |
| `HandOff` | The hand-off worker, tasks, and the follow-up worker as far as it gets. |
| `Library` | Knowledge items: routes, imports and embeddings. |
| `Settings` | `businesses.settings` under the calendar's OAuth routes and token refresh. |
| `Uploads` | Upload links. |
| `Rollup`, `Summaries` | The daily numbers, and the evening mail. |
| `Algorithms` | Free slots, the next opening, and times in words, as functions. |
| `MCJobQueue`, `MCInboundEvents`, `MCOutboundActions`, `MCAppointments` | Instances for TLC. |
| `Office` | `Quotes`, `Intake`, `HandOff`, `Library`, `Settings`, `Uploads`, `Rollup`, `Summaries` and `Algorithms` side by side, of which a behaviour chooses one; it extends `Quotes`, whose properties hold as they are, and instantiates the others, whose properties it states of itself. |
| `MCOffice` | The instance of `Office` for TLC. |

The modules that model a handler rely on the queue as `JobLifecycle` describes
it (one execution of a job at a time, at most `MaxAttempts` of them) and not on
`JobQueue` itself. The two halves of that argument are checked: `JobQueue`
implements `JobLifecycle` (proved, under the assumption `PromptHandlers`), and what
`Execution` does to a job is a step of `JobLifecycle` as well (`JobsFollowLifecycle`).
So the results about handlers carry the assumption `PromptHandlers`.

## Inventory

Each component with its state (S), its operations (O), what it talks to (I), what
is hard about it (H) and what makes it correct (P).

**Job queue** (`supabase/schema.sql` 688-870, `migrations/0004_hardening.sql`,
`apps/workers/src/{base,main,supabase_client}.py`).
S: `queue_jobs` rows (status, attempts, available_at, locked_by, locked_at), and
per process the running tasks. O: enqueue, claim, complete, fail, reap, poll,
handle, stop. I: every other component produces or consumes jobs. H: a time-out
abandons a call without cancelling it; the reaper cannot tell a slow handler from
a dead one; reports name a job, not an attempt. P: locked exactly while running;
no attempt twice; two executions of a job at a time only by
the reaper; everything settles; the documented life cycle.

**Webhook service** (`apps/webhooks/app`). S: none. O: map a provider event to a
canonical type and enqueue it. I: provider, `inbound-events` queue. H: repeated,
reordered and dropped deliveries. P: one job per event; what was enqueued settles.

**Inbound normalizer** (`workers/inbound_normalizer.py`, `lib/{contacts,
conversations,channels,phone}.py`). S: contacts, conversations, messages, events.
O: route, upsert contact, find or create conversation, store message, STOP/START/
HELP, audit event, text-back, classify. I: enqueues `outbound-actions` and
`conversation-intelligence`. H: no transaction around the chain; look-up and insert
are apart; two events of one call. P: a job that succeeded did all it should; one
text-back per call; an opt-out stands.

**Outbound action worker** (`workers/outbound_action.py`, `lib/{rate_limit,hours,
templates}.py`, `providers/sms.py`). S: outbound messages, events, `quotes.status`,
and the texts that have left. O: text, photo request, send quote. I: enqueued by nearly
everything; Retell and Twilio. H: limits are checked long before what they count
is written; the text cannot be undone. P: results are true; cap and cooldown; no
text after STOP.

**Booking worker and routes, Google Calendar** (`workers/booking_worker.py`,
`lib/google_calendar.py`, `routes/{bookings,integrations}.py`). S: bookings, calendar
events, OAuth tokens in `businesses.settings`. O: offer slots, book, cancel, complete,
reschedule, synchronise, connect, disconnect, refresh. I: follow-up and outbound jobs;
Google. H: check-then-create over an external calendar; failures that are swallowed; the
event exists before its row; settings are written back whole. P: a slot is taken twice,
and a final status undone, by a race alone; an event without a row needs a fault; the
calendar follows its booking; both tokens are of one account.

**Quotes** (`workers/quote_drafting.py`, `routes/quotes.py`, the quote branch of the
outbound worker). S: `quotes`. O: draft, edit, approve, decline, send. I: `outbound-actions`,
tasks. H: approval is read, write, enqueue; a retry drafts again; send ignores the status.
P: a quote is put up for sending once; approved or under review without anybody to act
on it only after a fault.

**Conversation intelligence, leads and intake** (`workers/conversation_intelligence.py`,
`lib/{leads,llm}.py`, `routes/leads.py`). S: conversations, leads, intake fields.
O: classify, bridge to a lead, advance the stage, merge fields, dispatch. I: every
downstream queue; the language model. H: the model is asked anew by each retry; the
bridge's failures are logged; stages are written by an earlier read; a decision without the
text or the lead it needs is dropped. P: one action per message; no other decision lost; a
lead goes back by a race alone.

**Hand-off, tasks and follow-ups** (`workers/{handoff,followup_scheduler}.py`,
`routes/tasks.py`). S: tasks, the conversation's status. O: hand over, update a task, remind,
escalate. H: tasks are inserted without a key, in a call apart from the status. P: who
waits for a person has a task; a second one needs a fault.

**Knowledge** (`workers/knowledge_ingestion.py`, `lib/knowledge.py`,
`routes/{knowledge,knowledge_ingest}.py`). S: `knowledge_items`: text and vector. O: create, edit,
upload, import, embed, re-embed. H: fixed keys; a retry inserts again; failures are
swallowed. P: an item without a vector needs a fault; the first edit is embedded.

**Upload links** (`routes/uploads.py`). S: `upload_tokens`, messages. O: create, open, complete.
H: a token is checked and then consumed, and consumed before the photo is filed. P: a
link used up without a photo needs a fault.

**Metrics, scheduler, daily summary** (`apps/api/app/services`). S: `metric_snapshots`, the
date of the last summary in memory. O: roll up, mail. H: counts are read apart; restart and
replicas. P: a snapshot's counts agree; a day's mail once from each loop.

**Reactivation batches** (`routes/reactivation.py`). S: batches, in their jobs' keys. H: a
batch launched twice or half way. P: a lead is texted once per batch.

**API infrastructure, dashboard, scripts, workflow packs.** Authentication, wiring,
user interface, prompts: no state of the system.

## How the models correspond to the code

### JobQueue

| Model | Code |
| --- | --- |
| `status`, `attempts`, `lockedBy` | the columns of `queue_jobs`; `"absent"` is a key without a row |
| `due`, `lockAge` | `available_at <= now()`, and the age of `locked_at` cut at the two thresholds compared with it (claim: 5 minutes, reaper: 10) |
| `EnqueueRow`, `ClaimRows`, `CompleteRow`, `FailRow`, `ReapRows` | the five RPCs; each is one statement, so one atomic action |
| `tasks` | `_process_one` tasks: waiting for the semaphore, in `handle()`, or reporting |
| `AtWork`, `overtaken` | the attempts of a job that a task or a report under way is of; how often the reaper took the row from one of them (history) |
| `Claim`, `Start`, `HandlerEnds`, `ReportDone` | `run`, `_process_one`, `_complete`, `_fail` |
| `ClaimTimesOut`, `LateClaim`, `ReportTimesOut`, `LateReport`, `...Lost` | `rpc()` runs the call in a thread under `wait_for`; the time-out abandons the thread, and the statement may commit later or never |
| `Stop`, `Restart`, `Reap` | `main.py`: tasks are cancelled where they stand; the reaper runs in every process |

The order of jobs of equal priority is left open (the code orders them by
`available_at` and `created_at`). A claim that blocks on another's row lock skips
the row; as a statement is atomic here, that cannot be seen.

### InboundEvents

One action per awaited call of `handle()`. After each call the handler goes on, or
(`GoesOn`) it never learns that the call was made: a time-out, a killed process.
`StepFails` is the call that fails or is never made. Either way the next execution
starts at the beginning. A call that timed out takes effect at once or never: the
backoff before the next attempt is 30 seconds or more, as long as the client's own
time-out, so a call that is still to take effect then is left to `JobQueue`, where the
queue's own calls do exactly that.

The caller is one contact of one business; `contact` is its row and its
`sms_opt_out`. A conversation is named by the job that opened it. Conversations are
not closed during a behaviour. Message text is one of the commands, something
else ("talk") or nothing. The unique indexes of `messages` are the guard of
`InsertMessage`; the idempotency keys of events and jobs are the elements of `events`
and `enqueued`. Note that a webhook whose key has a job keeps that job and its
payload, whatever the new payload says.

### OutboundActions

One action per awaited call again, with the customer (`CustomerReplies`: STOP and
START, as the inbound worker records them), the cooldown and midnight beside it. A
job is a request with the number of times quiet hours have deferred it, since
`ob:quiet:{job.id}` is a new job. Whether it is quiet hours is a choice at every
look. `Answers` are the outcomes of `send_sms_retell`: accepted with an id, accepted
without one (the adapter makes up `retell-sms-{to}`), or a lost answer or refusal followed
by Twilio, which may accept it too, refuse, or lose its answer; a refusal of both is
returned as a dry run, not raised.

The model follows the schema that is checked in. `lead_stage` has no value
`proposal`, so `advance_lead_stage` raises after a quote of a lead (`LeadStage`);
what follows that call in the code is not reached, and is not in the model. The
enum `quote_status` has no `approved`, so the approval route raises as well, and a
`send_quote` job comes from `/internal/queue/enqueue`. The deferral of the cooldown
passes an SQL expression as a string where a `timestamptz` is due, so it raises
(`RateLimited`).

### Execution and the handlers built on it

`job[k]` is the row of an idempotency key: its state, its attempts, and the step the
running handler is at. `Claim`, `Complete`, `Raises`, `Buries` (`PermanentError`) and `StepFails` are
what `_process_one` makes of it. A step that calls out ends in `GoesOn`: the handler goes
on, or it never learns of the answer and the job fails although the call was made.
`faults` counts those choices, so that a property can say what a single fault may
cost. Every execution starts at the beginning and asks anew what the earlier one had asked.

`migrated` (in `Quotes`, `Intake`, `Appointments`, `Rollup`, `Summaries`) is chosen at `Init`: the code
writes columns and enum values that `schema.sql` lacks, and whether the deployed database
has them cannot be told from the repository. `Intake!filterTaken` likewise: whether
PostgREST takes the filter `stage=not.is.won`.

| Module | Model | Code |
| --- | --- | --- |
| `Appointments` | `calendar`, `booking`, `hand`, `asked` | Google's events, `bookings`, local variables of a handler, of a route |
| | `Check`, `CreateEvent`, `InsertBooking`, `Confirm`; `OfferSlots`; `FallbackTask`, `CallBack` | the three ways of `handle()` |
| | `CancelReads`, `CancelWrites`, `RequestEnqueues`; `Reschedule`; `CompleteBooking` | the routes, split where they await |
| | `Sync`, `SyncSwallows` | `_handle_cancel`, `_handle_reschedule` |
| `Quotes` | `quote`, `payload`, `reviews` | `quotes.status`, the `quote_id` in an auto-quote job, the tasks |
| | `Load` ... `LeadAndEvent`; `Approve...`, `Decline`; `SendLoads`, `SendMarks` | worker, routes, `_handle_send_quote` |
| `Intake` | `held`, `lead`, `enqueued` | locals of `handle()`, `leads.stage`, downstream keys |
| | `Decision`, `HasText`; `Downstream` | the confidence floor and the hours; whether `reply_text` is there; the branches of the dispatch |
| | `Decide`, `FindLead`, `NewLead`, `Stage`, `Fields`, `BridgeFails`, `Dispatch` | `handle()` in order; `BridgeFails` is the `except` around the bridge |
| `HandOff` | `InsertTask`, `AwaitHuman`, `Notify`; `FollowUp` | the two handlers |
| `Library` | `item[x]` | `content` and `embedding`, each known by its version |
| | `Write` (of any item), `WriteEnqueues`; `Upload`; `InsertPiece`, `EnqueueEmbed`; `ReadText`, `StoreVector` | routes, uploads, imports, embedding |
| `Settings` | `request[r].read` | the document a request has read and will write back |
| `Uploads` | `CompleteReads`, `CompleteMarks`, `CompleteFiles` | `mark_upload_complete` |
| `Rollup` | `rollup[r].numbers` | the counts `_rollup_for_business` has so far |
| `Summaries` | `lastSent`, `left` | `last_sent_date`, the loop of `run_daily_summaries` |
| `Algorithms` | `FreeSlots`, `NextOpen`, `Within`, `PreferredTime` | `compute_free_slots`, `next_business_open`, `is_within_business_hours`, `_resolve_preferred_time` |

Two times that overlap are one slot in `Appointments`; the reads of settings, service and
contact are part of `Check`, as a failed read only retries the job. `Rollup` follows four of some
twenty counts, those between which an order must hold. In `Intake` a reply or a question
carries whether the model gave a text for it: the stage is written, and the decision
recorded, whether it did or not, and the dispatch then makes no job without one. In `Algorithms` a clock is a
day and an hour; the functions compare and add, so nothing depends on the unit. `Library`
assumes that a key for embeddings is configured.

## What the runs check

| Run | Question | Result |
| --- | --- | --- |
| `queue_late` | Is the table sound if handlers outlive the reaper, calls are abandoned and a process dies? | `TypeOK`, `LockedIffRunning`, `AttemptRunsOnce`, `FirstSuccessIsFinal` and, under fairness, `EveryJobSettles` hold; executions of a job overlap, but no more than the reaper took it from one at work (`OverlapNeedsReap`) |
| `queue_prompt` | And if no work outlives the threshold? | then the queue implements `JobLifecycle` (`FollowsLifecycle`) |
| `queue_succeeded_final` | Is the diagram right without that assumption? | no: `SucceededIsFinal` is violated |
| `inbound_calls` | What has a job that succeeded done, whatever failed on the way? | `DoneMeansHandled`, `ClassifiedMeansRecorded`, `OneTextBackPerCall` hold |
| `inbound_chats` | Do STOP, START and HELP take effect, and does every delivery settle? | `DoneMeansHandled`, `OptOutStands`, `DeliveriesSettle` hold |
| `inbound_missed_call` | Is every missed call answered, if nothing fails? | no: `MissedCallsAnswered` is violated |
| `inbound_retry` | Does a retry finish what a fault interrupted? | no: `RetriesRecover` is violated |
| `outbound_texts` | How far can concurrent handlers overshoot the cap, and is what is counted in the conversation? | by `Handlers - 1` at most (`DailyCapHolds`); `CountedIsRecorded` holds |
| `outbound_mixed` | Are results true, and is a STOP respected? | `ResultIsTrue`, `NoTextAfterOptOut` hold; an execution that began before the STOP may still text |
| `outbound_cooldown` | One text per contact and cooldown? | no: `CooldownKept` is violated |
| `appointments` | Do row, event and answer of a booking stay together? | events without a row and second answers cost a fault each (`OrphanNeedsFault`, `AnsweredOnce`); a slot is taken twice, and a completion undone, only by a race (`DoubleBookingNeedsRace`, `CompletionUndoneOnlyByRace`); without faults the calendar follows a booking changed once (`CalendarFollowsBooking`) |
| `office`, quotes | Is a quote sent at most once, and never forgotten? | `OneSendJobPerQuote`, `StrandedNeedsFault` hold; the jobs refine `JobLifecycle` (`JobsFollowLifecycle`) |
| `office`, intake | What do retries and a failing bridge do to a message? | `SecondActionNeedsFault`, `LeadGoesBackOnlyByRace` hold; a job that reports success enqueued what it decided, but for a quote without a lead and a reply or question without a text (`NoDecisionLost`) |
| `office`, hand-off | Has everybody who waits for a person a task? | `HandOffHasItsTask` holds |
| `office`, library | Is everything embedded? | but for faults (`BareNeedsFault`), and after a first edit too (`FirstEditIsEmbedded`) |
| `office`, settings | Are both tokens of one account? | unless the request that writes is a refresh that lost a race (`TokensMixedOnlyByRefresh`) |
| `office`, uploads | Is a used link's photo filed? | but for faults (`SpentLinkNeedsFault`) |
| `office`, rollup | Do the counts of a day agree? | unless leads change while they are read (`SnapshotsAgree`) |
| `office`, summaries | One mail a day? | one per loop, restart and lost answer (`OneMailPerLoop`) |
| `office`, times | Are slots, openings and times right? | free, complete, open, ahead (`TimesAreRight`) |

What these properties do not catch is listed with the hazards of `PROJECT.json`, each at its line:
a webhook event whose enqueue failed; the second text itself after a fault or a lost answer of
the provider; a declined quote that is texted; two uploads of one link; an older rollup written
over a newer; the stage `proposal` written by a late draft. The models have these behaviours
(but for the last); nothing in the code or its documents rules them out. `FirstEditIsEmbedded`
is about the first edit of an item typed in by hand.

Many of these properties have one form: *this bad state needs that many faults*, or *needs
this race*. They say two things. Without faults, or without the race, the bad state is not
reached by any order of the steps; and one fault does not cost more than stated, however the
retries, keys and other actors meet. The bad states themselves are real: the program reaches
them, and TLC shows it when the allowance is taken out.

`DoneMeansHandled` and `RetriesRecover` belong together: a job that is marked as
succeeded did everything, but a job that was interrupted after its message row
never succeeds. The code is safe because it stops, not because it recovers.

For every property of a passing run there is a mutant beside the definition it
changes (comments that begin with "Mutant"): a plausible bug that makes TLC refute
the property.

## Where code and documentation disagree

1. **A succeeded job moves.** `complete_queue_job` and `fail_queue_job` update by id
   alone. A handler that outlives the 10 minutes is reaped, a second attempt succeeds,
   and the first one's failure moves the row from `succeeded` to `retry`. The diagram
   has no arrow out of `succeeded`. (`queue_succeeded_final`)
2. **Missed calls are not texted back** if the same call was reported as started:
   both store a message under the call id, which is unique. (`inbound_missed_call`)
3. **A retry does not recover**: any fault after the message row makes every retry
   raise on that row; a STOP is lost. (`inbound_retry`)
4. **The cooldown does not hold** between concurrent handlers. (`outbound_cooldown`)
5. **A job is processed twice at a time** when its handler, or its wait for the semaphore,
   outlives the 10 minutes, which the code bounds by nothing: `SKIP LOCKED` keeps claims
   apart, not executions. `docs/DEPLOYMENT.md:168` holds replicas to be safe because of it.
   `OverlapNeedsReap` says how far it goes.
6. **Decisions are dropped**: a reply or a question for which the model gave no text, and a
   quote without a lead, are recorded, the lead is advanced, and nothing is enqueued
   (`conversation_intelligence.py:261`, `:312`, `:335`; its docstring and the Phase 3 checklist
   say otherwise). `NoDecisionLost` says that no others are.
7. The cooldown's deferral always raises
   (`outbound_action.py:137`), and so does a lead's quote after it was sent
   (`outbound_action.py:366`); the customer gets the quote once per attempt.
8. **Follow-ups of open conversations always raise**: `job.raw` is not an attribute of `Job`
   (`followup_scheduler.py:449`). No reminder, no-show check or escalation runs.
9. **A failed embedding is not retried**: the error the handler waits for is swallowed
   below it (`knowledge_ingestion.py:74`, `lib/knowledge.py:54`).
10. **The schema lacks columns the code uses** (`tasks.task_type` and others): rollup and summary
    fail against it (`metrics_rollup.py:141`).
11. **A declined quote is texted** if it was approved before (`outbound_action.py:280`).
12. **An afternoon begins at noon**: `noon` is found in `afternoon` first
    (`booking_worker.py:490`, `docs/DEFERRED_TASKS.md:59`).
13. **The summary's time and memory** are UTC and per process (`scheduler.py:65`, docstring lines 6-7).
14. **An upload completes after its link expired**, and twice if two requests meet
    (`uploads.py:137`).
15. **A business without hours is silent at night**, though the helper treats it as open
    (`outbound_action.py:174`, `lib/hours.py:15`).

Items 5 to 15 are read off the code and built into the models; they have no run of their own.

## Bounds

| Run | Bound | Why it is enough |
| --- | --- | --- |
| `queue_late`, `queue_succeeded_final` | 1 job, 2 processes, 3 attempts, 1 crash | the conflicts are between attempts of one row; three attempts allow a stale report to meet a later success and a last retry |
| `queue_prompt` | 2 jobs, 2 processes, 2 attempts, batches of 2, 1 crash | two jobs show batches, priorities and the semaphore; the theorems cover the rest |
| `inbound_*` | 2 calls of one caller, 2 attempts, 1 or 2 faults | two jobs of one call, and two conversations of one contact, are the conflicts there are; one fault interrupts, a second makes the retry fail |
| `outbound_texts` | 3 texts, 2 at a time, a cap of 1, 1 midnight, 1 fault | the cap is reached, overshot and reached again the next day |
| `outbound_mixed` | a text, a photo request, a lead's quote, 1 deferral, 1 fault | the kinds share only the contact; a plain quote takes the steps of a photo request and `QuoteSent` |
| `appointments` | 2 booking jobs, 2 slots, 2 requests, of which 3 run (`Bound`); 2 attempts, 2 handlers, 1 fault | two bookings, a booking and the owner, a change and a booking, or two changes can meet; a fault and its retry fit in the attempts |
| `office`: quotes | 1 drafting job, 2 approvals, 2 faults | approvals meet each other, a decline and a second draft |
| intake | 2 messages, 6 recommendations, each with and without a text, 1 fault; after a fault one of the two has ended or waits | a bridge meets another and the owner; the recommendations are one of each kind (a text that is needed, the same that may become a quote, stage contacted, stage qualified with and without a lead, a booking, which a person may get, and the end of the matter) |
| hand-off | 2 hand-offs, 1 follow-up, 1 fault | two tasks of one conversation |
| library | 1 item, 1 import and 1 upload of 2 pieces, 2 edits, 1 fault; the upload and the import apart; an imported or uploaded item is edited once, and while no other has been edited or typed in | a second edit under the first one's key; a retried import under taken keys |
| settings | 2 round trips, 1 disconnect, 2 refreshes | a refresh meets a new connection, another refresh, a disconnect |
| uploads | 2 links, 2 requests, 1 fault | two requests of a link |
| rollup | 2 rollups, 1 lead, 2 days, 1 call a day; 2 at a time on the first day | an older rollup overwrites a newer; the counts of one lead disagree |
| summaries | 2 loops, 2 businesses, 2 days, 1 restart, 1 fault | a partial success, a replica and a restart |
| times | up to 3 busy blocks in 6 units with slots of 2, weeks of 3 days with 5 kinds of day, every clock, all words | blocks nest, overlap, touch; closed days, holidays, two windows |

`Office` shares one run among components that share no table a property relates; variables
of those not chosen are `unused`, and those of `Quotes` stay at an initial state.
`MaxAttempts` is 2 and `Handlers` 2 throughout. The constraints `Bound` cut what the table
says and nothing else. Deadlock is not checked in `appointments` and `office`,
as requests, days and attempts are finite there.

Symmetry is used only for workers that do not differ (`queue_prompt`) and texts that do
not differ (`outbound_texts`), and jobs, requests, slots and links that do not differ
(`appointments`, `office`), and never with a liveness property. Bounds on crashes,
faults, deferrals and days are constants named `Max...`.

## Fairness

`JobQueue!Fairness` states what the program's surroundings give: the event loop runs
every ready task (`Claim`, `Start`, `HandlerEnds`, `ReportDone` per process); every
outgoing call has a time-out, so a handler ends and an abandoned call is over at
some time; clocks advance (`BecomeDue`, `LockAgesOn`); the reaper ticks; and a
stopped container is restarted (`restart: unless-stopped`). Faults are never fair.
The modules on `Execution` state no fairness: their properties are about what may not
happen; that every job comes to an end is the queue's `EveryJobSettles`.
`InboundEvents!FairSpec` asks that a ready job is claimed and its handler's calls
return, by weak fairness on each job. No property needs strong fairness.

## Proofs

TLAPS checks every theorem for any sets of jobs, workers, calls, bookers, messages, quotes,
documents, links, leads and processes, and any bounds; most of these sets need not be finite.

| Module | Theorem | Establishes, of `Spec` (`OfficeSpec` in the last two) |
| --- | --- | --- |
| `JobQueueProofs` | `TypesHold`, `TableIsSound`, `ExecutionsAreSound` | `TypeOK`, `LockedIffRunning`, and the strengthening below |
| | `AttemptsRunOnce`, `FirstSuccessStays` | `AttemptRunsOnce`, `FirstSuccessIsFinal` |
| | `OverlapsCostReaps` | `OverlapNeedsReap`, whatever outlives the threshold |
| | `PromptQueueFollowsLifecycle` | with `PromptHandlers`: the refinement `FollowsLifecycle` |
| `InboundProofs` | `InboundInvariant`, `InboundTypes` | `InboundInv` is inductive; `TypeOK` |
| | `SuccessVouches`, `RecordedBeforeClassified`, `OneTextBack`, `OptOutIsKept` | `DoneMeansHandled`, `ClassifiedMeansRecorded`, `OneTextBackPerCall`, `OptOutStands` |
| `OutboundProofs` | `OutboundInvariant`, `OutboundTypes` | `OutboundInv` is inductive; `TypeOK` |
| | `CapOvershoot`, `CountedInConversation`, `ResultsAreTrue`, `TextsWereWanted` | `DailyCapHolds`, `CountedIsRecorded`, `ResultIsTrue`, `NoTextAfterOptOut` |
| `AppointmentsProofs` | `AppointmentsSound`, `AppointmentsTypes` | `BaseInv` is inductive; `TypeOK` |
| | `CompletionStands`, `DoubleBookings` | `CompletionUndoneOnlyByRace`, `DoubleBookingNeedsRace` |
| | `OrphansCostFaults`, `CustomersAnswered`, `BookingsAreFollowed` | `OrphanNeedsFault`, `AnsweredOnce`, `CalendarFollowsBooking` |
| `QuotesProofs` | `QuotesSound`, `QuotesTypes` | `BaseInv` is inductive; `TypeOK` |
| | `OneSendJob`, `StrandedCostFaults`, `QuotesFollowLifecycle` | `OneSendJobPerQuote`, `StrandedNeedsFault`, and `JobsFollowLifecycle` |
| `OfficeProofs` | `DecisionsAreKept`, `SecondActions`, `StagesGoForward` | `NoDecisionLost`, `SecondActionNeedsFault`, `LeadGoesBackOnlyByRace` |
| | `SomebodyWasAsked` | `HandOffHasItsTask` |
| | `TokensOfOneAccount`, `SpentLinks` | `TokensMixedOnlyByRefresh`, `SpentLinkNeedsFault` |
| | `CountsAgree`, `OneMailFromEachLoop` | `SnapshotsAgree`, `OneMailPerLoop` |
| | `QuotesInOffice` | a behaviour of `Office` is one of `Quotes` |
| `LibraryProofs` | `BareItems`, `FirstEdits` | `BareNeedsFault`, `FirstEditIsEmbedded` |
| | `AllTypes` | `TypesOK`, with every component's invariant |

They assume the named assumptions of the modules on their constants, which TLC evaluates in
every run that extends the module: that bounds are numbers (`MaxAttemptsAssumption`,
`LimitsAssumption`, `BoundsAssumption`, `ExecutionAssumption`), that priorities and kinds are
given (`PriorityAssumption`, `RequestsAssumption`), that deliveries are deliveries
(`DeliveriesAssumption`), and that the values for *none* are not in the sets (`WorkersAssumption`,
`SlotsAssumption`). What the components of `Office` need of their constants is assumed there,
as no run extends their modules. `OfficeAssumption`: the bounds are numbers; leads, loops and
businesses, which are counted, are finite; an uploaded text has a piece at least; the language
model recommends answers the code has a name for; and the value for nobody's account is no
round trip. `IdsAssumption`: imports, documents, the items made from them and those typed in by
hand have different ids, as they have in the tables.

**The queue.** The argument has two layers. The *table* layer needs nothing but the rows: an RPC
that writes a status writes the lock with it, and a row goes back to waiting only after
its attempts were compared with the budget. So late reports cannot break it, whichever
attempt they are of. `TypeOK` is not inductive without it: `attempts` stays within
`max_attempts` only because a row that waits has an attempt left, which the claim does
not compare.

The *execution* layer follows the attempts: a task or a report under way carries an
attempt the row has counted; each attempt of a job has at most one of them; an
attempt whose task waits was not started; and a job that succeeded has an attempt of which
neither a task nor a report is left, so that after a success on the first attempt nothing
can still report. `AttemptRunsOnce` and
`FirstSuccessIsFinal` need all of these: the counter alone does not say that an
attempt was not started. `OverlapNeedsReap` is not inductive on them: what counts are the
attempts at work that were *left behind*, those that are not the one a running row is of
(`LeftBehind`). A claim adds none, as the row was not running before it. A report of an older
attempt that takes the row out of running leaves the current attempt behind, but its own is no
longer at work: it had that one task or report only. So the reaper alone adds one, and is
counted (`OverlapInv`). With `PromptHandlers`, one more part: what is under way for a job is of its
current attempt, and the row is running. From it, every report meets the running row
the diagram requires, which is what each step of the refinement needs.

**Inbound events.** `InboundInv` says of each key which steps its handler can be at, that it
holds an open conversation from the resolution on, and what it has written by then (`KeyInv`);
and of the tables together that a call has one message, and that a text-back is keyed by the
conversation that message is stored in (`TablesInv`). The second is what makes text-backs
unique: their keys name conversations, and a retry may find another one open, but it does not
get past the message row it wrote before. Handlers share the tables but only add to them, so
the part of every other key stands; what is left is one lemma for each call.

**Outbound actions.** `DailyCapHolds` is not inductive: what matters are the texts of the day
together with those that have passed the cap's check and are still to be counted
(`CapInv`). A text joins when it finds the cap not reached, while at most `Handlers - 1` others are
past the check; it stays until it is counted, and at midnight the day's texts go. The results
rest on what a handler has recorded at each step (`OnCourse`, `ResultHolds`), and the opt-out on a
subscription seen since the claim by everyone on the way to a text. A deferral is the one
place where a handler writes another job's row.

**Appointments.** Five parts. `BaseInv` says which rows the attempts of a booking job have
stored. `RacesInv`: what the handler saw before it creates an event is there, and in another
slot unless it was moved since. `OrphansInv`: events without a row that
no execution is about to store are at most `faults`; this counts more than `OrphanNeedsFault` does,
as an event is potentially an orphan from the call that lost its answer on. `AnswersInv`:
texts are at most `faults` before the execution has sent its own. `FollowsInv`: without
faults each stored row's event is where the row says, or the job that will move or cancel it
exists, and no such job is dead. A job and a request may change the same row, so a
step is first shown to be one of four kinds, with what each leaves alone.

**Quotes.** `BaseInv` says what a drafting execution has handed on at each step, that the
auto-send job holds a quote of its own draft, and that a quote a person may approve is not one
that is sent automatically. `OneSendJobPerQuote` follows from the keys. The stranded quotes are
not inductive: one may be declined, or sent by the job of another, while a fault strands the next.
The proof counts *tokens* instead, which come at a fault only: failed executions, shifted by one
behind the execution whose quote the auto-send job has; and quotes whose approving request
failed. Every stranded quote is one of them.
`JobsFollowLifecycle` needs of each step that every job's row moves as `JobLifecycle` allows;
together with `PromptQueueFollowsLifecycle` this proves, for the jobs of quotes, both halves of what
the modules on `Execution` take for granted of the queue. The other modules move their jobs by the
same operators, but the step-by-step statement is made for `Quotes` only.

**Intake.** `IntakeInv` says of each message which leads its executions may have created, that
the lead whose stage is to be written exists, that past the dispatch what was decided has its job
unless it lacks the text or the lead it needs,
and that all its actions but one cost a fault.

**Hand-offs.** `HandInv` says of each hand-off that its attempts but one each cost a fault, that
only they have tasks, and that past the insertion, and when it is done, one of them has; and
that the conversation awaits a person only if a hand-off has asked. Its tasks are then no more
than its attempts.

**The library.** Bare items are not inductive to count: an import that lost the answer to an
enqueue has done no harm yet, but its retry inserts the pieces anew, and finds their keys taken by
the embeddings of the first. `Lost` counts those beforehand: the items that miss a vector that
nobody is about to make, and those *doomed*, which an attempt under way or still to come will
insert under a key that another item has. A fault of an import dooms the `Chunks` pieces of
the next attempt at most, any other loses one item, and nothing else loses any (`LostPaid`). For
this, `LibBase` follows where the texts and keys are: the pieces of attempts and uploads to come
have no text, a key has a payload if and only if it has a job, and an embedding under way is of
an item that has a text.
For first edits the argument is the opposite, as it is about behaviours without faults:
`EditSound` says of an item that its first text is embedded under the first of its keys, and its
second under the other, job by job, as long as no edit came while an embedding was
under way (`raced`).

**Settings, links, numbers, mails.** The settings are written as a whole by whoever read them
before, so what matters is what each request holds: a step is shown to leave the settings alone,
to write tokens of one account, or to be a refresh's. A spent link is paid for by the request that
spent it, and a photo in the conversation is of a request that is over (`Filed`). A rollup's counts
agree as far as it has read them, unless disturbed (`RollupSound`); that they are of the same leads,
the later among the earlier, makes the stored ones agree. A business's mails of a day are counted
against the loops that have *served* it: a loop has, once it mailed somebody and has the business
behind it in its round, or remembers the day. A mail to a business makes its loop one that
served it, or cost a fault; only a restart makes a loop forget (`MailsPaid`).

**Types.** `OfficeInv` puts the invariants of all components together, as each of their types
needs its component's: `attempts` stays within its bound by the state of the row, and the number
of mails in a loop's round by the businesses it has left. `QuotesInOffice` shows that
`Office` runs `Quotes` as it is, so that what is proved of `Quotes` holds where the run checks it.

The lemmas of `ExecutionProofs` say once what a claim, a step, a failure, an enqueue and a
completion do to the table, whatever the keys and steps; every action of the modules on
`Execution` is one of these on one job, plus what it writes elsewhere.

Each inductive invariant was checked by TLC on the instance of its component's run before it was
proved. `OneTextBackPerCall`, `DailyCapHolds`, `OrphanNeedsFault` and `StrandedNeedsFault` are the ones
where the strengthening is not what one would write first.

Only model-checked: liveness (`EveryJobSettles`, `DeliveriesSettle`), because fairness and
`ENABLED` are out of the prover's reach; `TimesAreRight`, which says what folds over
hours and days compute, by induction over data. No modelled
definition is recursive (`Algorithms` folds).

## What is not modelled

- Reactivation batches: what they enqueue are follow-up jobs, which end in the exception of
  item 8; the batch's own keys are in the plan.
- The handlers of `followup_scheduler.py` behind that exception.
- Metadata of leads and contacts and the values of intake fields (merged as `Settings` shows for
  the business); `update_quote`; deletion of knowledge items; scraping, parsing and chunking.
- The comparison route, the text of the summary, and the counts of a rollup not followed.
- Time zones, and daylight saving, in `Algorithms`; ISO times a customer gives.
- In `OutboundActions`: the preferred-time branch of templates, quotes without a
  conversation, and what lies behind the failing stage update.
- Authentication, signature checks, payload mapping, tracing, e-mail and the dashboard:
  no state that the properties tell apart.
- More than one business or customer: rows of different ones share no key.

## Plan

| Step | Modules | Properties and theorems |
| --- | --- | --- |
| 1 (done) | `JobQueue`, `JobLifecycle`, `JobQueueProofs` | above |
| 2 (done) | `InboundEvents` | above |
| 3 (done) | `OutboundActions` | above |
| 4 (done) | `Execution`, `Appointments`, `MCAppointments` | above |
| 5 (done) | `Quotes`, `Intake`, `HandOff`, `Library` | above |
| 6 (done) | `Settings`, `Uploads`, `Rollup`, `Summaries`, `Algorithms`, `MCOffice` | above |
| 7 (done) | `InboundProofs`, `OutboundProofs` | every property of the two but `DeliveriesSettle` |
| 8 (done) | `ExecutionProofs`, `AppointmentsProofs`, `QuotesProofs` | every property of the two |
| 9 (done) | `Office`, `OfficeProofs`, `LibraryProofs` | every property of `Intake`, `HandOff`, `Library`, `Settings`, `Uploads`, `Rollup` and `Summaries`; `TypesOK` |
| 10 | `Batches` | keys of a batch that is launched again |
