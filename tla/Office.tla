-------------------------------- MODULE Office --------------------------------
(***************************************************************************)
(* The components that share no table a property relates, side by side:    *)
(* chosen says which of them a behaviour is about.  The variables of the    *)
(* others are unused; two that have a variable of the same name share it.   *)
(* Quotes, whose properties are stated under their own names, keeps its     *)
(* variables for itself: they stay at an initial state when another         *)
(* component is chosen.                                                     *)
(***************************************************************************)
EXTENDS Quotes

CONSTANTS
    MaxCost,                            \* MaxFaults of the others
    Messages, Recommended,              \* of Intake
    HandOffs, FollowUps,                \* of HandOff
    Manual, Imports, Files, Chunks, MaxEdits,       \* of Library, whose Documents are Files
    Connects, Disconnects, Refreshes,   \* of Settings
    Customers, Tokens,                  \* of Uploads
    Rollups, LeadIds, MaxCalls,         \* of Rollup, whose Leads are LeadIds
    Loops, Businesses, MaxRestarts,     \* of Summaries
    MaxDays,                            \* of Rollup and Summaries
    Horizon, Duration, Week, Windows,   \* of Algorithms
    unused                              \* the value of a variable that is not

VARIABLES
    chosen,
    rows, cost, deployed,   \* job, faults and migrated of the others
    payloads, document,     \* payload of Library, settings of Settings
    filterTaken, lead, held, enqueued, task, conversation, item, piece, edit, raced,
    request, token, photos, today, calls, snapshot, rollup, evening, lastSent, left,
    mails, restarts, input

I == INSTANCE Intake
    WITH MaxFaults <- MaxCost, job <- rows, faults <- cost, migrated <- deployed
H == INSTANCE HandOff WITH MaxFaults <- MaxCost, job <- rows, faults <- cost
L == INSTANCE Library
    WITH Documents <- Files, MaxFaults <- MaxCost, job <- rows, faults <- cost,
         payload <- payloads
S == INSTANCE Settings WITH settings <- document
U == INSTANCE Uploads WITH MaxFaults <- MaxCost, faults <- cost
R == INSTANCE Rollup WITH Leads <- LeadIds, migrated <- deployed
M == INSTANCE Summaries WITH MaxFaults <- MaxCost, faults <- cost, migrated <- deployed
A == INSTANCE Algorithms

\* What is counted is finite, a text is one piece at least, the model recommends
\* something that the code has a name for, and no round trip is nobody's.
ASSUME OfficeAssumption ==
    /\ {MaxCost, MaxEdits, MaxCalls, MaxRestarts} \subseteq Nat
    /\ {Chunks, MaxDays} \subseteq Nat \ {0}
    /\ IsFiniteSet(LeadIds) /\ IsFiniteSet(Loops) /\ IsFiniteSet(Businesses)
    /\ Recommended \subseteq I!Answers
    /\ S!Nobody \notin Connects

\* Items, imports, documents and pieces are told apart by their ids.
ASSUME IdsAssumption ==
    /\ Imports \cap Files = {}
    /\ Manual \cap (Imports \X L!Pieces) = {}
    /\ Manual \cap ((Imports \cup Files) \X (1 .. MaxAttempts) \X L!Pieces) = {}
    /\ L!NoItem \notin L!Items

QuotesOthers ==
    <<rows, cost, deployed, payloads, document, filterTaken, lead, held, enqueued,
      task, conversation, item, piece, edit, raced, request, token, photos, today,
      calls, snapshot, rollup, evening, lastSent, left, mails, restarts, input>>
IntakeOthers ==
    <<payloads, document, task, conversation, item, piece, edit, raced, request,
      token, photos, today, calls, snapshot, rollup, evening, lastSent, left, mails,
      restarts, input>>
HandOffOthers ==
    <<deployed, payloads, document, filterTaken, held, enqueued, item, piece, edit,
      raced, request, token, photos, today, calls, snapshot, rollup, evening,
      lastSent, left, mails, restarts, input>>
LibraryOthers ==
    <<deployed, document, filterTaken, lead, enqueued, task, conversation, request,
      token, photos, today, calls, snapshot, rollup, evening, lastSent, left, mails,
      restarts, input>>
SettingsOthers ==
    <<rows, cost, deployed, payloads, filterTaken, lead, held, enqueued, task,
      conversation, item, piece, edit, raced, token, photos, today, calls, snapshot,
      rollup, evening, lastSent, left, mails, restarts, input>>
UploadsOthers ==
    <<rows, deployed, payloads, document, filterTaken, lead, held, enqueued, task,
      conversation, item, piece, edit, raced, today, calls, snapshot, rollup, evening,
      lastSent, left, mails, restarts, input>>
RollupOthers ==
    <<rows, cost, payloads, document, filterTaken, held, enqueued, task, conversation,
      item, piece, edit, raced, request, token, photos, evening, lastSent, left,
      mails, restarts, input>>
SummariesOthers ==
    <<rows, payloads, document, filterTaken, lead, held, enqueued, task, conversation,
      item, piece, edit, raced, request, token, photos, calls, snapshot, rollup, input>>

Unused(v) == v = unused

OfficeInit ==
    /\ Init
    /\ \/ chosen = "quotes"
       \/ chosen = "intake" /\ I!Init
       \/ chosen = "handoff" /\ H!Init
       \/ chosen = "library" /\ L!Init
       \/ chosen = "settings" /\ S!Init
       \/ chosen = "uploads" /\ U!Init
       \/ chosen = "rollup" /\ R!Init
       \/ chosen = "summaries" /\ M!Init
       \/ chosen = "times" /\ A!Init
    /\ chosen = "quotes" \/ (migrated /\ autoMax = [d \in Drafts |-> FALSE])
    /\ chosen \in {"intake", "handoff", "library"} \/ Unused(rows)
    /\ chosen \in {"intake", "handoff", "library", "uploads", "summaries"} \/ Unused(cost)
    /\ chosen \in {"intake", "rollup", "summaries"} \/ Unused(deployed)
    /\ chosen = "intake" \/ (Unused(filterTaken) /\ Unused(enqueued))
    /\ chosen \in {"intake", "library"} \/ Unused(held)
    /\ chosen \in {"intake", "handoff", "rollup"} \/ Unused(lead)
    /\ chosen = "handoff" \/ (Unused(task) /\ Unused(conversation))
    /\ \/ chosen = "library"
       \/ /\ Unused(payloads)
          /\ Unused(item)
          /\ Unused(piece)
          /\ Unused(edit)
          /\ Unused(raced)
    /\ chosen = "settings" \/ Unused(document)
    /\ chosen \in {"settings", "uploads"} \/ Unused(request)
    /\ chosen = "uploads" \/ (Unused(token) /\ Unused(photos))
    /\ chosen = "rollup" \/ (Unused(calls) /\ Unused(snapshot) /\ Unused(rollup))
    /\ chosen \in {"rollup", "summaries"} \/ Unused(today)
    /\ \/ chosen = "summaries"
       \/ /\ Unused(evening)
          /\ Unused(lastSent)
          /\ Unused(left)
          /\ Unused(mails)
          /\ Unused(restarts)
    /\ chosen = "times" \/ Unused(input)

OfficeNext ==
    \/ chosen = "quotes" /\ Next /\ UNCHANGED <<chosen, QuotesOthers>>
    \/ chosen = "intake" /\ I!Next /\ UNCHANGED <<chosen, vars, IntakeOthers>>
    \/ chosen = "handoff" /\ H!Next /\ UNCHANGED <<chosen, vars, HandOffOthers>>
    \/ chosen = "library" /\ L!Next /\ UNCHANGED <<chosen, vars, LibraryOthers>>
    \/ chosen = "settings" /\ S!Next /\ UNCHANGED <<chosen, vars, SettingsOthers>>
    \/ chosen = "uploads" /\ U!Next /\ UNCHANGED <<chosen, vars, UploadsOthers>>
    \/ chosen = "rollup" /\ R!Next /\ UNCHANGED <<chosen, vars, RollupOthers>>
    \/ chosen = "summaries" /\ M!Next /\ UNCHANGED <<chosen, vars, SummariesOthers>>

officeVars == <<chosen, vars, QuotesOthers>>
OfficeSpec == OfficeInit /\ [][OfficeNext]_officeVars

-----------------------------------------------------------------------------
(* Properties.                                                             *)

\* Every variable of every component keeps its type.
TypesOK ==
    CASE chosen = "quotes" -> TypeOK
      [] chosen = "intake" -> I!TypeOK
      [] chosen = "handoff" -> H!TypeOK
      [] chosen = "library" -> L!TypeOK
      [] chosen = "settings" -> S!TypeOK
      [] chosen = "uploads" -> U!TypeOK
      [] chosen = "rollup" -> R!TypeOK
      [] chosen = "summaries" -> M!TypeOK
      [] chosen = "times" -> input.of \in {"slots", "hours", "words"}

\* Only a fault gives a customer's message a second action.
SecondActionNeedsFault == chosen = "intake" => I!SecondActionNeedsFault

\* A classification that reports success enqueued what it decided, a quote without a
\* lead and a reply or question without a text excepted.
NoDecisionLost == chosen = "intake" => I!NoDecisionLost

\* The bridge takes a lead back only if the lead moved after it was read.
LeadGoesBackOnlyByRace == [][chosen = "intake" => I!GoesBackOnlyByRace]_officeVars

\* A hand-off that is done, or a conversation that awaits a person, has its task, and
\* a second one only after a fault.
HandOffHasItsTask == chosen = "handoff" => H!HandOffHasItsTask

\* A knowledge item without a vector, and nobody about to make it, needs a fault.
BareNeedsFault == chosen = "library" => L!BareNeedsFault

\* The first edit of an item is embedded, if none was being made of it.
FirstEditIsEmbedded == chosen = "library" => L!FirstEditIsEmbedded

\* The calendar's two tokens become those of two accounts only by a refresh that lost
\* a race with a new connection.
TokensMixedOnlyByRefresh == [][chosen = "settings" => S!MixesOnlyByRefresh]_officeVars

\* An upload link used up without a photo in the conversation needs a fault.
SpentLinkNeedsFault == chosen = "uploads" => U!SpentLinkNeedsFault

\* The counts of a day's snapshot agree, unless the leads changed while they were read.
SnapshotsAgree == chosen = "rollup" => R!SnapshotsAgree

\* A business gets a day's mail once from each loop, and once more for each restart or
\* lost answer.
OneMailPerLoop == chosen = "summaries" => M!OneMailPerLoop

\* Slots offered, openings and times meant are what their callers rely on.
TimesAreRight == chosen = "times" => A!TimesAreRight
=============================================================================
