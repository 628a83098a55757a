-------------------------------- MODULE Quotes --------------------------------
(***************************************************************************)
(* A quote from its draft to its text: workers/quote_drafting.py, the      *)
(* review in routes/quotes.py, and what _handle_send_quote of               *)
(* workers/outbound_action.py does to the quote (the text itself is in      *)
(* OutboundActions).                                                        *)
(*                                                                          *)
(* The drafting worker writes columns and enum values that schema.sql does *)
(* not have (contact_id, service_id, 'approved', task_type, 'proposal').    *)
(* migrated says whether the deployed database has them.                    *)
(***************************************************************************)
EXTENDS Execution

CONSTANTS
    Drafts,        \* the quote-drafting jobs, each for a lead of its own
    Approvals      \* requests to approve a quote

\* Every execution of a drafting job may insert a quote of its own.
QuoteIds == Drafts \X (1 .. MaxAttempts)
NoQuote == <<"none", 0>>

\* The keys ob:autoquote:{job.id}, ob:quote:{quote_id}, ho:quote-esc:{job_id}.
Jobs == ({"draft", "auto", "escalate"} \X Drafts) \cup ({"send"} \X QuoteIds)
Draft(d) == <<"draft", d>>
AutoQuote(d) == <<"auto", d>>
Send(q) == <<"send", q>>

Statuses == {"absent", "awaiting_review", "approved", "sent", "void"}
Steps == {"load", "insert", "autoSend", "task", "stage", "event", "text", "mark", "followUp",
          "report"}

VARIABLES
    migrated,
    quote,         \* quotes.status
    autoMax,       \* the lead's price is within settings.auto_quote_max
    payload,       \* the quote_id in each auto-quote job
    reviews,       \* the quotes that have a quote_review task
    asked          \* the requests to approve: their quote, and how far they are

vars == <<job, faults, migrated, quote, autoMax, payload, reviews, asked>>
tables == <<quote, payload, reviews>>
settings == <<migrated, autoMax>>

Init ==
    /\ job = [k \in Jobs |-> IF k[1] = "draft" THEN Ready ELSE Absent]
    /\ faults = 0
    /\ migrated \in BOOLEAN
    /\ quote = [q \in QuoteIds |-> "absent"]
    /\ autoMax \in [Drafts -> BOOLEAN]
    /\ payload = [d \in Drafts |-> NoQuote]
    /\ reviews = {}
    /\ asked = [r \in Approvals |-> [quote |-> NoQuote, at |-> "idle"]]

-----------------------------------------------------------------------------
(* The drafting worker.  The quote of this execution:                       *)

Own(d) == <<d, job[Draft(d)].attempts>>

\* The business, the lead, its intake fields and the service are read.  With
\* neither fields nor service the draft is handed to a person.
Load(d) ==
    /\ job[Draft(d)].at = "load"
    /\ \/ GoesOn(Draft(d), "insert")
       \/ GoesOnWith(Enqueued(job, <<"escalate", d>>), Draft(d), "report")
    /\ UNCHANGED <<tables, settings, asked>>

\* The quote is inserted, approved at once if it is cheap enough.
Insert(d) ==
    /\ job[Draft(d)].at = "insert"
    /\ migrated
    /\ quote' = [quote EXCEPT ![Own(d)] = IF autoMax[d] THEN "approved" ELSE "awaiting_review"]
    /\ GoesOn(Draft(d), IF autoMax[d] THEN "autoSend" ELSE "task")
    /\ UNCHANGED <<payload, reviews, settings, asked>>

\* The database has no such columns: every execution raises.
InsertRejected(d) ==
    /\ job[Draft(d)].at = "insert"
    /\ ~migrated
    /\ Raises(Draft(d))
    /\ UNCHANGED <<tables, settings, asked>>

\* The auto-send job.  If the key has one, that one keeps its quote.
AutoSend(d) ==
    /\ job[Draft(d)].at = "autoSend"
    /\ payload' = [payload EXCEPT ![d] = IF @ = NoQuote THEN Own(d) ELSE @]
    /\ GoesOnWith(Enqueued(job, AutoQuote(d)), Draft(d), "stage")
    /\ UNCHANGED <<quote, reviews, settings, asked>>

\* The review task.
ReviewTask(d) ==
    /\ job[Draft(d)].at = "task"
    /\ reviews' = reviews \cup {Own(d)}
    /\ GoesOn(Draft(d), "stage")
    /\ UNCHANGED <<quote, payload, settings, asked>>

\* advance_lead_stage to proposal, whatever the stage was, and quote.drafted.
LeadAndEvent(d) ==
    /\ job[Draft(d)].at \in {"stage", "event"}
    /\ GoesOn(Draft(d), IF job[Draft(d)].at = "stage" THEN "event" ELSE "report")
    /\ UNCHANGED <<tables, settings, asked>>

-----------------------------------------------------------------------------
(* The review.                                                             *)

Reviewable == {q \in QuoteIds : quote[q] = "awaiting_review"}

\* Mutant: any quote that is not declined may be approved.
ApproveReadsAny(r) ==
    /\ asked[r].at = "idle"
    /\ \E q \in QuoteIds :
          /\ quote[q] \notin {"absent", "void"}
          /\ asked' = [asked EXCEPT ![r] = [quote |-> q, at |-> "write"]]
    /\ UNCHANGED <<job, faults, tables, settings>>

\* approve_quote finds the quote under review (else it answers 409).
ApproveReads(r) ==
    /\ asked[r].at = "idle"
    /\ \E q \in Reviewable : asked' = [asked EXCEPT ![r] = [quote |-> q, at |-> "write"]]
    /\ UNCHANGED <<job, faults, tables, settings>>

\* It writes the status without looking again.
Approved(r) == [quote EXCEPT ![asked[r].quote] = "approved"]
ApproveWrites(r) ==
    /\ asked[r].at = "write"
    /\ quote' = Approved(r)
    /\ asked' = [asked EXCEPT ![r].at = "enqueue"]
    /\ UNCHANGED <<job, faults, payload, reviews, settings>>

\* Mutant: a lead without a conversation ends the request early.
ApproveNeedsConversation(r) ==
    /\ asked[r].at = "enqueue"
    /\ \E conversation \in BOOLEAN :
          job' = IF conversation THEN Enqueued(job, Send(asked[r].quote)) ELSE job
    /\ asked' = [asked EXCEPT ![r].at = "done"]
    /\ UNCHANGED <<faults, tables, settings>>

\* The lead's conversation is read, if it has one, and the send job enqueued.
ApproveEnqueues(r) ==
    /\ asked[r].at = "enqueue"
    /\ job' = Enqueued(job, Send(asked[r].quote))
    /\ asked' = [asked EXCEPT ![r].at = "done"]
    /\ UNCHANGED <<faults, tables, settings>>

\* A call of the request fails, or the answer to its update is lost: 500, and nothing
\* tries again.
ApproveFails(r) ==
    /\ asked[r].at \in {"write", "enqueue"}
    /\ Fault
    /\ \/ quote' = quote
       \/ asked[r].at = "write" /\ quote' = Approved(r)
    /\ asked' = [asked EXCEPT ![r].at = "done"]
    /\ UNCHANGED <<job, payload, reviews, settings>>

\* decline_quote, at any time and whatever the status.
Decline(q) ==
    /\ quote[q] \notin {"absent", "void"}
    /\ quote' = [quote EXCEPT ![q] = "void"]
    /\ UNCHANGED <<job, faults, payload, reviews, settings, asked>>

-----------------------------------------------------------------------------
(* The outbound worker.                                                    *)

QuoteOf(k) == IF k[1] = "auto" THEN payload[k[2]] ELSE k[2]
SendJobs == {k \in Jobs : k[1] \in {"auto", "send"}}

\* The quote is read for its text, not for its status; then the contact, whose
\* number may be missing, and who may have opted out.
SendLoads(k) ==
    /\ job[k].at = "text"
    /\ \/ GoesOn(k, "mark")
       \/ GoesOn(k, "report")
       \/ Buries(k)
    /\ UNCHANGED <<tables, settings, asked>>

\* The text was sent: the status says so, whatever it was.  The approval's job names
\* the lead, which the automatic one does not.
SendMarks(k) ==
    /\ job[k].at = "mark"
    /\ quote' = [quote EXCEPT ![QuoteOf(k)] = "sent"]
    /\ GoesOn(k, IF k[1] = "auto" THEN "report" ELSE "followUp")
    /\ UNCHANGED <<payload, reviews, settings, asked>>

\* The follow-up of a lead's quote is enqueued for a time the database refuses, if the
\* stage did not fail already: every such execution raises, after it texted.
FollowUpRejected(k) ==
    /\ job[k].at = "followUp"
    /\ Raises(k)
    /\ UNCHANGED <<tables, settings, asked>>

-----------------------------------------------------------------------------
Drafting(d) ==
    \/ Claim(Draft(d), "load") /\ UNCHANGED <<tables, settings, asked>>
    \/ Load(d) \/ Insert(d) \/ InsertRejected(d) \/ AutoSend(d) \/ ReviewTask(d)
    \/ LeadAndEvent(d)

Sending(k) ==
    \/ Claim(k, "text") /\ UNCHANGED <<tables, settings, asked>>
    \/ SendLoads(k) \/ SendMarks(k) \/ FollowUpRejected(k)

Next ==
    \/ \E d \in Drafts : Drafting(d)
    \/ \E k \in SendJobs : Sending(k)
    \/ \E k \in Jobs : (StepFails(k) \/ Complete(k)) /\ UNCHANGED <<tables, settings, asked>>
    \/ \E r \in Approvals :
          ApproveReads(r) \/ ApproveWrites(r) \/ ApproveEnqueues(r) \/ ApproveFails(r)
    \/ \E q \in QuoteIds : Decline(q)

Spec == Init /\ [][Next]_vars

-----------------------------------------------------------------------------
(* Properties.                                                             *)

\* Every variable keeps its type.
TypeOK ==
    /\ job \in [Jobs -> JobRows(Steps)]
    /\ faults \in 0 .. MaxFaults
    /\ migrated \in BOOLEAN
    /\ quote \in [QuoteIds -> Statuses]
    /\ autoMax \in [Drafts -> BOOLEAN]
    /\ payload \in [Drafts -> QuoteIds \cup {NoQuote}]
    /\ reviews \subseteq QuoteIds
    /\ asked \in [Approvals -> [quote : QuoteIds \cup {NoQuote},
                                at : {"idle", "write", "enqueue", "done"}]]

\* No quote is put up for sending twice: the auto-send job and the approval's have
\* different keys, and two approvals may both have found the quote under review.
OneSendJobPerQuote ==
    \A q \in QuoteIds :
        Cardinality({k \in SendJobs : job[k].state # "absent" /\ QuoteOf(k) = q}) <= 1

\* Approval, draft and task are separate writes.  A quote that is approved with
\* nobody to send it, or under review without its task, cost a fault each, so in
\* a run without faults there is none.
Stranded ==
    {q \in QuoteIds :
        \/ /\ quote[q] = "approved"
           /\ \A k \in SendJobs : job[k].state # "absent" => QuoteOf(k) # q
           /\ ~(job[Draft(q[1])].at = "autoSend" /\ q = Own(q[1]))
           /\ \A r \in Approvals : ~(asked[r].quote = q /\ asked[r].at = "enqueue")
        \/ /\ quote[q] = "awaiting_review"
           /\ q \notin reviews
           /\ ~(job[Draft(q[1])].at = "task" /\ q = Own(q[1]))}
StrandedNeedsFault == Cardinality(Stranded) <= faults

\* What the workers take for granted of the queue is no more than the life cycle
\* that JobQueue implements.
Lifecycle == INSTANCE JobLifecycle
    WITH status <- [k \in Jobs |-> Status(k)], attempts <- [k \in Jobs |-> job[k].attempts]
JobsFollowLifecycle == [][UNCHANGED job \/ Lifecycle!Next]_vars
=============================================================================
