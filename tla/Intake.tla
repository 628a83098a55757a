-------------------------------- MODULE Intake --------------------------------
(***************************************************************************)
(* What follows an inbound message: workers/conversation_intelligence.py   *)
(* and the leads helpers it bridges to (lib/leads.py).  One contact and one *)
(* conversation.                                                           *)
(*                                                                          *)
(* The language model is asked anew by every execution, and answers         *)
(* anything.  Two things depend on the deployment: whether the database has *)
(* leads.intake_fields, which the code writes and schema.sql lacks, and      *)
(* whether its REST layer takes the filter stage=not.is.won of              *)
(* find_or_create_lead ("is" is for null and booleans).                     *)
(***************************************************************************)
EXTENDS Execution

CONSTANTS
    Messages,        \* the conversation-intelligence jobs
    Recommended      \* what the model recommends, of Answers

\* NEXT_ACTIONS, with "details" for collect_quote_details, "schedule" for
\* schedule_callback, "resolved" for mark_resolved, and one "book" for book and
\* confirm_booking, which differ in the payload.
Answers == {"reply", "question", "ask_followup", "details", "schedule", "quote", "book",
            "photo", "handoff", "resolved", "noop"}
\* Those whose job is a text of the model's wording, and is not made without one.
Worded == {"reply", "question"}
\* Downstream jobs: the keys ob:ai-reply:, ob:ask-q:, qd:, bk:, ob:photo:,
\* ob:{next_action}:, ho: and ho:book:, each with the job's id.
Actions == (Answers \cup {"callback"}) \ {"noop", "resolved"}

\* A lead is known by the execution that created it.  Closed is won or lost.
Leads == Messages \X (1 .. MaxAttempts)
Stages == {"absent", "new", "contacted", "qualified", "closed"}
NoLead == <<"none", 0>>
Steps == {"decide", "lead", "newLead", "stage", "fields", "dispatch", "followUp", "status",
          "report"}
BridgeSteps == {"lead", "newLead", "stage", "fields"}

VARIABLES
    migrated, filterTaken,
    lead,          \* leads.stage
    held,          \* what a classification holds: its decision, whether that has the
                   \* text it needs and is a reply out of hours, its lead, and the
                   \* stage it read until it used it
    enqueued       \* the downstream jobs, and the follow-ups fu:after:

vars == <<job, faults, migrated, filterTaken, lead, held, enqueued>>
deployment == <<migrated, filterTaken>>

Undecided == [action |-> "noop", text |-> TRUE, late |-> FALSE, lead |-> NoLead, seen |-> "absent"]

Init ==
    /\ job = [c \in Messages |-> Ready]
    /\ faults = 0
    /\ migrated \in BOOLEAN
    /\ filterTaken \in BOOLEAN
    /\ lead = [l \in Leads |-> "absent"]
    /\ held = [c \in Messages |-> Undecided]
    /\ enqueued = {}

-----------------------------------------------------------------------------
(* Classification.                                                         *)

Start(c) == Claim(c, "decide") /\ UNCHANGED <<deployment, lead, held, enqueued>>

\* The handler goes on, holding h, or fails and holds nothing.
Goes(c, step, h) ==
    /\ GoesOn(c, step)
    /\ held' = [held EXCEPT ![c] = IF job'[c].at = step THEN h ELSE Undecided]

\* Below the confidence floor a person decides; out of hours only an emergency
\* gets more than a reply.
Decision(answer, sure, open, emergency) ==
    LET guarded == IF ~sure /\ answer # "noop" THEN "handoff" ELSE answer
    IN IF ~open /\ ~emergency /\ guarded \notin {"handoff", "noop", "resolved"}
       THEN "reply" ELSE guarded

\* Whether the decision has the text it needs: reply_text may be empty, but the reply
\* that stands in for another decision out of hours brings its own.
HasText(action, worded, open, emergency) ==
    \/ action \notin Worded
    \/ worded
    \/ action = "reply" /\ ~open /\ ~emergency

\* The conversation, the articles and the services are read, the model is asked, and
\* the decision recorded: update_conversation and the event.  Spam, unknown intents
\* and a conversation without contact skip the bridge to the leads.
Decide(c) ==
    /\ job[c].at = "decide"
    /\ \E answer \in Recommended, sure, open, emergency, worded \in BOOLEAN,
          step \in {"lead", "dispatch"} :
          LET action == Decision(answer, sure, open, emergency)
          IN Goes(c, step, [Undecided EXCEPT
                               !.action = action,
                               !.text = HasText(action, worded, open, emergency),
                               !.late = action = "reply" /\ ~open])
    /\ UNCHANGED <<deployment, lead, enqueued>>

\* stage_map, and the stages it applies to: whether there is a text to send is not
\* looked at.
Target(action) == IF action \in {"reply", "question", "ask_followup"} THEN "contacted" ELSE "qualified"
\* Mutant: the stage is not looked at.
AdvancesAlways(c) == held[c].action \notin {"book", "photo", "handoff", "resolved", "noop"}
Advances(c) == /\ held[c].action \notin {"book", "photo", "handoff", "resolved", "noop"}
               /\ held[c].seen \in {"new", "contacted"}

\* find_or_create_lead: the latest lead that is neither won nor lost (which one that
\* is is left open).
OpenLeads == {l \in Leads : lead[l] \notin {"absent", "closed"}}
FindLead(c) ==
    /\ job[c].at = "lead"
    /\ filterTaken
    /\ \/ OpenLeads = {} /\ Goes(c, "newLead", held[c])
       \/ \E l \in OpenLeads :
             Goes(c, "stage", [held[c] EXCEPT !.lead = l, !.seen = lead[l]])
    /\ UNCHANGED <<deployment, lead, enqueued>>

\* What the bridge's writes make of the leads: the insert, which no unique index
\* guards, and advance_lead_stage, by what was read of the lead before.
OwnLead(c) == <<c, job[c].attempts>>
Written(c) ==
    CASE job[c].at = "newLead" -> [lead EXCEPT ![OwnLead(c)] = "new"]
      [] job[c].at = "stage" /\ Advances(c) ->
            [lead EXCEPT ![held[c].lead] = Target(held[c].action)]
      [] OTHER -> lead

NewLead(c) ==
    /\ job[c].at = "newLead"
    /\ lead' = Written(c)
    /\ Goes(c, "stage", [held[c] EXCEPT !.lead = OwnLead(c), !.seen = "new"])
    /\ UNCHANGED <<deployment, enqueued>>

Stage(c) ==
    /\ job[c].at = "stage"
    /\ lead' = Written(c)
    /\ Goes(c, "fields", [held[c] EXCEPT !.seen = "absent"])
    /\ UNCHANGED <<deployment, enqueued>>

\* upsert_intake_fields and check_required_fields_complete: with every field of the
\* service at hand, a question or a request for details becomes a quote.
Fields(c) ==
    /\ job[c].at = "fields"
    /\ \/ Goes(c, "dispatch", held[c])
       \/ /\ migrated
          /\ held[c].action \in {"question", "details"}
          /\ Goes(c, "dispatch", [held[c] EXCEPT !.action = "quote", !.text = TRUE])
    /\ UNCHANGED <<deployment, lead, enqueued>>

\* Mutant: a bridge that fails ends the handler.
BridgeFailsEnds(c) ==
    /\ job[c].at \in BridgeSteps
    /\ Goes(c, "report", held[c])
    /\ UNCHANGED <<deployment, lead, enqueued>>

\* An exception in the bridge is logged and the handler goes on: the filter or the
\* column is refused, or a call fails, whether it was carried out or not.
BridgeFails(c) ==
    /\ job[c].at \in BridgeSteps
    /\ \/ /\ \/ job[c].at = "lead" /\ ~filterTaken
             \/ job[c].at = "fields" /\ ~migrated
          /\ faults' = faults
          /\ lead' = lead
       \/ Fault /\ lead' \in {lead, Written(c)}
    /\ job' = [job EXCEPT ![c].at = "dispatch"]
    /\ held' = [held EXCEPT ![c].seen = "absent"]
    /\ UNCHANGED <<deployment, enqueued>>

\* The downstream job of a decision, if it has one.  A booking goes to a person
\* when booking_automation_enabled is off; a quote needs the lead, a reply and a
\* question need their text.
Downstream(c) ==
    LET action == held[c].action
    IN CASE action = "book" -> {"book", "callback"}
         [] action = "quote" /\ held[c].lead = NoLead -> {}
         [] action \in Worded /\ ~held[c].text -> {}
         [] action \in {"resolved", "noop"} -> {}
         [] OTHER -> {action}

\* Mutant: an if for an elif, and what is handed off is replied to as well.
DispatchFallsThrough(c) ==
    /\ job[c].at = "dispatch"
    /\ \E a \in Downstream(c) :
          /\ enqueued' = enqueued \cup {<<a, c>>, <<"reply", c>>}
          /\ Goes(c, "report", held[c])
    /\ UNCHANGED <<deployment, lead>>

\* (After the knowledge-gap task, whose failure is logged.)
Dispatch(c) ==
    /\ job[c].at = "dispatch"
    /\ \/ /\ Downstream(c) = {}
          /\ enqueued' = enqueued
          /\ Goes(c, "report", held[c])
       \/ \E a \in Downstream(c) :
             /\ enqueued' = enqueued \cup {<<a, c>>}
             /\ Goes(c, IF held[c].late THEN "followUp" ELSE "report", held[c])
    /\ UNCHANGED <<deployment, lead>>

\* A reply out of hours is followed up when the business opens, if it ever does, and
\* the conversation then waits for the customer.
ScheduleFollowUp(c) ==
    /\ job[c].at = "followUp"
    /\ \/ enqueued' = enqueued \cup {<<"followUp", c>>} /\ Goes(c, "status", held[c])
       \/ enqueued' = enqueued /\ Goes(c, "report", held[c])
    /\ UNCHANGED <<deployment, lead>>

AwaitCustomer(c) ==
    /\ job[c].at = "status"
    /\ Goes(c, "report", held[c])
    /\ UNCHANGED <<deployment, lead, enqueued>>

-----------------------------------------------------------------------------
\* The owner closes a lead (update_lead; the stages in between are not the owner's here).
OwnerCloses(l) ==
    /\ l \in OpenLeads
    /\ lead' = [lead EXCEPT ![l] = "closed"]
    /\ UNCHANGED <<job, faults, deployment, held, enqueued>>

Classify(c) ==
    \/ Start(c) \/ Decide(c)
    \/ FindLead(c) \/ NewLead(c) \/ Stage(c) \/ Fields(c) \/ BridgeFails(c)
    \/ Dispatch(c) \/ ScheduleFollowUp(c) \/ AwaitCustomer(c)

Ends(c) ==
    /\ StepFails(c) \/ Complete(c)
    /\ held' = [held EXCEPT ![c] = Undecided]
    /\ UNCHANGED <<deployment, lead, enqueued>>

Next ==
    \/ \E c \in Messages : Classify(c) \/ Ends(c)
    \/ \E l \in Leads : OwnerCloses(l)

Spec == Init /\ [][Next]_vars

-----------------------------------------------------------------------------
(* Properties.                                                             *)

\* Every variable keeps its type.
TypeOK ==
    /\ job \in [Messages -> JobRows(Steps)]
    /\ faults \in 0 .. MaxFaults
    /\ {migrated, filterTaken} \subseteq BOOLEAN
    /\ lead \in [Leads -> Stages]
    /\ held \in [Messages -> [action : Answers, text : BOOLEAN, late : BOOLEAN,
                              lead : Leads \cup {NoLead}, seen : Stages]]
    /\ enqueued \subseteq (Actions \cup {"followUp"}) \X Messages

\* A retry asks the model again, and what it decides has a key of its own: only a
\* fault gives a message a second action.
SecondActionNeedsFault ==
    \A c \in Messages : Cardinality({a \in Actions : <<a, c>> \in enqueued}) <= 1 + faults

\* A classification that reports success enqueued what it decided, though the bridge
\* may have failed or changed the decision on the way and an earlier execution decided
\* otherwise.  Two decisions are lost without a word, and no others: a quote for which
\* there is no lead, and a reply or a question for which the model gave no text.
NoDecisionLost ==
    \A c \in Messages :
        LET h == held[c]
        IN /\ job[c].at = "report"
           /\ h.action \notin {"resolved", "noop"}
           /\ h.action = "quote" => h.lead # NoLead
           /\ h.action \in Worded => h.text
           => \/ <<h.action, c>> \in enqueued
              \/ h.action = "book" /\ <<"callback", c>> \in enqueued

\* The bridge writes the stage it derives from an earlier read.  It takes a lead back
\* (a closed one, or a qualified one to contacted) only if the lead moved meanwhile.
Rank(s) == CASE s = "absent" -> 0 [] s = "new" -> 1 [] s = "contacted" -> 2
             [] s = "qualified" -> 3 [] s = "closed" -> 4
GoesBackOnlyByRace ==
    \A l \in Leads : Rank(lead'[l]) < Rank(lead[l]) =>
        \E c \in Messages : /\ job[c].at = "stage"
                            /\ held[c].lead = l
                            /\ held[c].seen # lead[l]
LeadGoesBackOnlyByRace == [][GoesBackOnlyByRace]_vars
=============================================================================
