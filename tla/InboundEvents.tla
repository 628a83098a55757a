---------------------------- MODULE InboundEvents ----------------------------
(***************************************************************************)
(* From a provider's webhook to the rows and the downstream jobs it leads  *)
(* to: apps/webhooks/app/retell.py, and the handler of the inbound-events  *)
(* queue, workers/inbound_normalizer.py, with the helpers it awaits.       *)
(*                                                                          *)
(* The handler is not a transaction: every await is a separate database    *)
(* call, so every call is a step, and between two of them other handlers   *)
(* run, or this one raises, times out or is killed and is run again from    *)
(* the start.  The queue is what JobLifecycle promises: one execution of a  *)
(* job at a time, at most MaxAttempts of them, one job per key.            *)
(*                                                                          *)
(* One business and one caller, who may use several calls and chats.       *)
(***************************************************************************)
EXTENDS Naturals, FiniteSets

CONSTANTS
    Calls,            \* Retell call ids (a chat has one too)
    Deliveries,       \* what the provider reports, each once or more often
    MaxAttempts,      \* queue_jobs.max_attempts
    MaxFaults,        \* bound on the calls that raise or processes that die
    NoDelivery

CallTypes == {"call.started", "call.ended", "call.missed"}
EventTypes == CallTypes \cup {"message.received"}
Texts == {"stop", "start", "help", "talk", "none"}

\* A webhook's payload: the canonical event type of the call, what the body of a
\* chat message says, whether from_number is an E.164 number and whether
\* to_number belongs to a channel.
Delivery == [call : Calls, type : EventTypes, text : Texts,
             known : BOOLEAN, routed : BOOLEAN]

ASSUME DeliveriesAssumption == Deliveries \subseteq Delivery /\ NoDelivery \notin Delivery
ASSUME BoundsAssumption ==
    /\ MaxAttempts \in Nat \ {0}
    /\ MaxFaults \in Nat

\* The queue's idempotency key is inbound:retell:{call_id}:{canonical}.
Keys == [call : Calls, type : EventTypes]
KeyOf(d) == [call |-> d.call, type |-> d.type]
Channel(k) == IF k.type = "message.received" THEN "sms" ELSE "phone"

\* A conversation is known by the key of the job that opened it: a job opens none
\* when its channel has one, so it opens one at most.  (None is closed here.)
NoConversation == [call |-> NoDelivery, type |-> "none"]

JobStates == {"absent", "ready", "running", "done", "dead"}
Steps == {"idle", "route", "contact", "newContact", "conversation", "newConversation",
          "message", "command", "commandEvent", "audit", "textback", "classify", "report"}

VARIABLES
    acked,          \* deliveries the webhook answered with 2xx
    dropped,        \* those whose enqueue failed: answered 2xx all the same
    job,            \* the inbound-events job of each key
    at,             \* the next call its handler makes
    conv,           \* the handler's local conversation
    contact,        \* the caller's contacts row and its sms_opt_out
    conversations,  \* the open conversations
    messages,       \* the messages rows
    events,         \* idempotency keys of the events rows
    enqueued,       \* idempotency keys of the downstream jobs
    faults

vars == <<acked, dropped, job, at, conv, contact, conversations, messages, events,
          enqueued, faults>>
tables == <<contact, conversations, messages, events, enqueued>>

Init ==
    /\ acked = {}
    /\ dropped = {}
    /\ job = [k \in Keys |-> [state |-> "absent", attempts |-> 0, payload |-> NoDelivery]]
    /\ at = [k \in Keys |-> "idle"]
    /\ conv = [k \in Keys |-> NoConversation]
    /\ contact = "none"
    /\ conversations = {}
    /\ messages = {}
    /\ events = {}
    /\ enqueued = {}
    /\ faults = 0

-----------------------------------------------------------------------------
(* The webhook.                                                            *)

\* handle_retell_webhook enqueues under the call's key.  The provider may report
\* the same thing again; enqueue_job keeps the row it has.
Webhook(d) ==
    /\ acked' = acked \cup {d}
    /\ job' = IF job[KeyOf(d)].state = "absent"
              THEN [job EXCEPT ![KeyOf(d)] = [state |-> "ready", attempts |-> 0,
                                              payload |-> d]]
              ELSE job
    /\ UNCHANGED <<dropped, at, conv, tables, faults>>

\* The enqueue fails, and the webhook answers 2xx so that the provider does not
\* deliver again.
WebhookDrops(d) ==
    /\ faults < MaxFaults
    /\ d \notin acked
    /\ faults' = faults + 1
    /\ acked' = acked \cup {d}
    /\ dropped' = dropped \cup {d}
    /\ UNCHANGED <<job, at, conv, tables>>

-----------------------------------------------------------------------------
(* The job of one key.                                                     *)

Claim(k) ==
    /\ job[k].state = "ready"
    /\ job' = [job EXCEPT ![k].state = "running", ![k].attempts = @ + 1]
    /\ at' = [at EXCEPT ![k] = "route"]
    /\ UNCHANGED <<acked, dropped, conv, tables, faults>>

\* The execution is over and the job is in the given state.
Leaves(k, state) ==
    /\ job' = [job EXCEPT ![k].state = state]
    /\ at' = [at EXCEPT ![k] = "idle"]
    /\ conv' = [conv EXCEPT ![k] = NoConversation]

\* Mutant: the last attempt is counted wrong.
RaisesOneMore(k) == Leaves(k, IF job[k].attempts > MaxAttempts THEN "dead" ELSE "ready")

\* Mutant: a failed execution is neither reported nor reaped.
RaisesUnreported(k) == Leaves(k, "running")

\* handle() raised: a retry, or dead_letter after the last attempt.
Raises(k) == Leaves(k, IF job[k].attempts >= MaxAttempts THEN "dead" ELSE "ready")

\* The call was made.  Its caller goes on to the next step, or never learns of it
\* (a time-out, a killed process) and the handler has failed.
GoesOn(k, step) ==
    \/ /\ at' = [at EXCEPT ![k] = step]
       /\ UNCHANGED <<job, conv, faults>>
    \/ /\ faults < MaxFaults
       /\ faults' = faults + 1
       /\ Raises(k)

\* A call fails, or the process dies before making it.
StepFails(k) ==
    /\ at[k] # "idle"
    /\ faults < MaxFaults
    /\ faults' = faults + 1
    /\ Raises(k)
    /\ UNCHANGED <<acked, dropped, tables>>

Payload(k) == job[k].payload

\* resolve_voice_or_sms_channel finds no business: an event, and PermanentError.
RouteFails(k) ==
    /\ at[k] = "route"
    /\ ~Payload(k).routed
    /\ events' = events \cup {<<"inbound", k>>}
    /\ Leaves(k, "dead")
    /\ UNCHANGED <<acked, dropped, contact, conversations, messages, enqueued, faults>>

\* It finds one.  Without a usable number there is neither contact nor
\* conversation, and no message is stored.
Route(k) ==
    /\ at[k] = "route"
    /\ Payload(k).routed
    /\ GoesOn(k, IF Payload(k).known THEN "contact" ELSE "audit")
    /\ UNCHANGED <<acked, dropped, tables>>

\* upsert_contact: the look-up.
FindContact(k) ==
    /\ at[k] = "contact"
    /\ GoesOn(k, IF contact = "none" THEN "newContact" ELSE "conversation")
    /\ UNCHANGED <<acked, dropped, tables>>

\* Mutant: the insert overwrites the row it meets.
InsertContactUpserts(k) ==
    /\ at[k] = "newContact"
    /\ contact' = "subscribed"
    /\ GoesOn(k, "conversation")
    /\ UNCHANGED <<acked, dropped, conversations, messages, events, enqueued>>

\* upsert_contact: the insert; on a unique violation the row is read again.
InsertContact(k) ==
    /\ at[k] = "newContact"
    /\ contact' = IF contact = "none" THEN "subscribed" ELSE contact
    /\ GoesOn(k, "conversation")
    /\ UNCHANGED <<acked, dropped, conversations, messages, events, enqueued>>

\* After the conversation: a chat message without text or attachment is not stored.
AfterConversation(k) ==
    IF k.type = "message.received" /\ Payload(k).text = "none" THEN "audit" ELSE "message"

\* The handler goes on with conversation v, or raises before it knows it.
Uses(k, v) ==
    \/ /\ at' = [at EXCEPT ![k] = AfterConversation(k)]
       /\ conv' = [conv EXCEPT ![k] = v]
       /\ UNCHANGED <<job, faults>>
    \/ /\ faults < MaxFaults
       /\ faults' = faults + 1
       /\ Raises(k)

\* find_or_create_conversation: the look-up of an open conversation.  Which one
\* is the latest is left open.
Open(k) == {v \in conversations : Channel(v) = Channel(k)}
FindConversation(k) ==
    /\ at[k] = "conversation"
    /\ \/ Open(k) = {} /\ GoesOn(k, "newConversation")
       \/ \E v \in Open(k) : Uses(k, v)
    /\ UNCHANGED <<acked, dropped, tables>>

\* find_or_create_conversation: the insert, which no unique index guards.
InsertConversation(k) ==
    /\ at[k] = "newConversation"
    /\ conversations' = conversations \cup {k}
    /\ Uses(k, k)
    /\ UNCHANGED <<acked, dropped, contact, messages, events, enqueued>>

\* insert_message: unique on (business, external_message_id), which is the call id,
\* and on the key made of the event type and the call id.
Stored(k) == \E m \in messages : m.key.call = k.call
IsCommand(k) == k.type = "message.received" /\ Payload(k).text \in {"stop", "start", "help"}

\* Mutant: no unique index.
InsertMessageAgain(k) ==
    /\ at[k] = "message"
    /\ messages' = messages \cup {[key |-> k, conv |-> conv[k]]}
    /\ GoesOn(k, IF IsCommand(k) THEN "command" ELSE "audit")
    /\ UNCHANGED <<acked, dropped, contact, conversations, events, enqueued>>

InsertMessage(k) ==
    /\ at[k] = "message"
    /\ ~Stored(k)
    /\ messages' = messages \cup {[key |-> k, conv |-> conv[k]]}
    /\ GoesOn(k, IF IsCommand(k) THEN "command" ELSE "audit")
    /\ UNCHANGED <<acked, dropped, contact, conversations, events, enqueued>>

\* Mutant: a message that is there already is taken for a finished job.
MessageExistsIsDone(k) ==
    /\ at[k] = "message"
    /\ Stored(k)
    /\ Leaves(k, "done")
    /\ UNCHANGED <<acked, dropped, tables, faults>>

\* Mutant: a message that is there already is taken for this one.
MessageExistsGoesOn(k) ==
    /\ at[k] = "message"
    /\ Stored(k)
    /\ GoesOn(k, "audit")
    /\ UNCHANGED <<acked, dropped, tables>>

\* A row of that call is there already: the insert raises.
MessageExists(k) ==
    /\ at[k] = "message"
    /\ Stored(k)
    /\ Raises(k)
    /\ UNCHANGED <<acked, dropped, tables, faults>>

\* _handle_sms_command: the contact's metadata, or the help reply.
Command(k) ==
    /\ at[k] = "command"
    /\ \/ /\ Payload(k).text = "stop"
          /\ contact' = "optedOut"
          /\ enqueued' = enqueued
          /\ GoesOn(k, "commandEvent")
       \/ /\ Payload(k).text = "start"
          /\ contact' = "subscribed"
          /\ enqueued' = enqueued
          /\ GoesOn(k, "commandEvent")
       \/ /\ Payload(k).text = "help"
          /\ enqueued' = enqueued \cup {<<"help", k>>}
          /\ contact' = contact
          /\ GoesOn(k, "report")
    /\ UNCHANGED <<acked, dropped, conversations, messages, events>>

\* Mutant: a stop returns before its event.
CommandEventSkipped(k) ==
    /\ at[k] = "commandEvent"
    /\ events' = IF Payload(k).text = "stop" THEN events ELSE events \cup {<<"start", k>>}
    /\ GoesOn(k, IF Payload(k).text = "stop" THEN "report" ELSE "audit")
    /\ UNCHANGED <<acked, dropped, contact, conversations, messages, enqueued>>

\* _handle_sms_command: the opt-out or opt-in event.  A stop ends the handler.
CommandEvent(k) ==
    /\ at[k] = "commandEvent"
    /\ events' = events \cup {<<Payload(k).text, k>>}
    /\ GoesOn(k, IF Payload(k).text = "stop" THEN "report" ELSE "audit")
    /\ UNCHANGED <<acked, dropped, contact, conversations, messages, enqueued>>

\* The audit event, under the job's own key.
Audit(k) ==
    /\ at[k] = "audit"
    /\ events' = events \cup {<<"inbound", k>>}
    /\ GoesOn(k, IF k.type = "call.missed" /\ conv[k] # NoConversation THEN "textback"
                 ELSE IF k.type = "call.started" THEN "report" ELSE "classify")
    /\ UNCHANGED <<acked, dropped, contact, conversations, messages, enqueued>>

\* The missed-call text-back, keyed by conversation and call.
TextBack(k) ==
    /\ at[k] = "textback"
    /\ enqueued' = enqueued \cup {<<"textback", conv[k], k.call>>}
    /\ GoesOn(k, "classify")
    /\ UNCHANGED <<acked, dropped, contact, conversations, messages, events>>

\* The conversation-intelligence job, keyed by this job's id.
Classify(k) ==
    /\ at[k] = "classify"
    /\ enqueued' = enqueued \cup {<<"classify", k>>}
    /\ GoesOn(k, "report")
    /\ UNCHANGED <<acked, dropped, contact, conversations, messages, events>>

\* complete_queue_job.  (That it never arrives is StepFails: the job is reaped.)
Complete(k) ==
    /\ at[k] = "report"
    /\ Leaves(k, "done")
    /\ UNCHANGED <<acked, dropped, tables, faults>>

-----------------------------------------------------------------------------
Handler(k) ==
    \/ RouteFails(k) \/ Route(k)
    \/ FindContact(k) \/ InsertContact(k)
    \/ FindConversation(k) \/ InsertConversation(k)
    \/ InsertMessage(k) \/ MessageExists(k)
    \/ Command(k) \/ CommandEvent(k)
    \/ Audit(k) \/ TextBack(k) \/ Classify(k)
    \/ Complete(k)

Next ==
    \/ \E d \in Deliveries : Webhook(d) \/ WebhookDrops(d)
    \/ \E k \in Keys : Claim(k) \/ Handler(k) \/ StepFails(k)

Spec == Init /\ [][Next]_vars

\* The queue claims what is ready, and a handler's calls return or time out.
FairSpec ==
    Spec /\ \A d \in Deliveries : WF_vars(Claim(KeyOf(d)) \/ Handler(KeyOf(d)))

-----------------------------------------------------------------------------
(* Properties.                                                             *)

\* Every variable keeps its type.
TypeOK ==
    /\ acked \subseteq Deliveries
    /\ dropped \subseteq acked
    /\ job \in [Keys -> [state : JobStates, attempts : 0 .. MaxAttempts,
                         payload : Deliveries \cup {NoDelivery}]]
    /\ at \in [Keys -> Steps]
    /\ conv \in [Keys -> Keys \cup {NoConversation}]
    /\ contact \in {"none", "subscribed", "optedOut"}
    /\ conversations \subseteq Keys
    /\ messages \subseteq [key : Keys, conv : conversations]
    /\ events \subseteq {"inbound", "stop", "start"} \X Keys
    /\ enqueued \subseteq ({"help", "classify"} \X Keys) \cup ({"textback"} \X conversations \X Calls)
    /\ faults \in 0 .. MaxFaults

\* A job that succeeded left everything its event calls for: the audit event and
\* the classification, for a missed call the text-back, for STOP and HELP what
\* they ask for; whatever failed and was run again on the way.
Succeeded(k) == job[k].state = "done"
DoneMeansHandled ==
    \A k \in Keys : Succeeded(k) =>
        LET d == Payload(k)
        IN IF IsCommand(k) /\ d.known /\ d.text # "start"
           THEN /\ d.text = "stop" => <<"stop", k>> \in events
                /\ d.text = "help" => <<"help", k>> \in enqueued
           ELSE /\ <<"inbound", k>> \in events
                /\ k.type # "call.started" => <<"classify", k>> \in enqueued
                /\ k.type = "call.missed" /\ d.known =>
                      \E v \in conversations : <<"textback", v, k.call>> \in enqueued

\* What is classified was recorded first: the event, and the message the
\* classifier will read.
ClassifiedMeansRecorded ==
    \A k \in Keys : <<"classify", k>> \in enqueued =>
        /\ <<"inbound", k>> \in events
        /\ Payload(k).known /\ AfterConversation(k) = "message" => \E m \in messages : m.key = k

\* A caller gets at most one text-back for a missed call, though the key of the
\* text-back holds a conversation that a second execution may resolve anew.
OneTextBackPerCall ==
    \A c \in Calls :
        Cardinality({v \in conversations : <<"textback", v, c>> \in enqueued}) <= 1

\* Once a STOP was acted on, only a START opens the contact again.
OptOutStands ==
    [][contact = "optedOut" /\ contact' # "optedOut" =>
          \E k \in Keys : at[k] = "command" /\ Payload(k).text = "start"]_vars

\* Every delivery that was enqueued is settled: its job succeeds or is buried.
DeliveriesSettle ==
    \A d \in Deliveries :
        d \in acked \ dropped ~> job[KeyOf(d)].state \in {"done", "dead"}

\* workers/inbound_normalizer.py promises a text-back for call.missed.  When the
\* job of a missed call is settled, and nothing failed, the text-back is enqueued.
MissedCallsAnswered ==
    \A k \in Keys :
        /\ faults = 0
        /\ k.type = "call.missed"
        /\ job[k].state \in {"done", "dead"}
        /\ Payload(k).known /\ Payload(k).routed
        => \E v \in conversations : <<"textback", v, k.call>> \in enqueued

\* workflows/QUEUE_WORKFLOWS.md asks every worker to verify idempotency and to
\* persist in a transaction, so that a job can be run again: a routed job is
\* buried only when a fault spent each of its attempts.
RetriesRecover ==
    \A k \in Keys : job[k].state = "dead" /\ Payload(k).routed => faults >= MaxAttempts
=============================================================================
