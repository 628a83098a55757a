----------------------------- MODULE Appointments -----------------------------
(***************************************************************************)
(* A booking, its row and its calendar event: workers/booking_worker.py,   *)
(* the routes of routes/bookings.py that change a booking, and the calls of *)
(* lib/google_calendar.py by what they do to the calendar.                  *)
(*                                                                          *)
(* Row, event, confirmation and synchronisation are writes to different     *)
(* places, one after another.  migrated says whether the deployed database  *)
(* has the columns bookings.service_id and tasks.task_type, which the       *)
(* worker writes and schema.sql lacks.                                      *)
(***************************************************************************)
EXTENDS Execution

CONSTANTS
    Bookers,       \* the jobs that book an appointment
    Slots,         \* the times asked for; two that overlap are the same slot
    Requests       \* requests of the staff to change a booking

\* Every execution of a booking job may store a row and create an event of its own.
Rows == Bookers \X (1 .. MaxAttempts)
\* An event the owner enters in the calendar.
Owners == <<"owner", 0>>
Events == Rows \cup {Owners}
Free == "free"
NoRow == <<"none", 0>>

\* A slot is a time.
ASSUME SlotsAssumption == Free \notin Slots

\* booking-sync jobs: those of the leads, and the keys bksync:cancel:{booking_id} and
\* bksync:resched:{booking_id}:{now}.
Book(b) == <<"book", b>>
Cancel(e) == <<"cancel", e>>
Move(r) == <<"move", r>>
Jobs == ({"book"} \X Bookers) \cup ({"cancel"} \X Rows) \cup ({"move"} \X Requests)

Steps == {"check", "create", "insert", "confirm", "offer", "task", "callback", "sync", "report"}
Statuses == {"absent", "open", "cancelled", "completed"}   \* open: tentative or confirmed

VARIABLES
    migrated,
    calendar,      \* the slot of each event, Free when there is no such event
    booking,       \* the bookings rows: status, scheduled_start, and whether they
                   \* have an external_calendar_event_id
    hand,          \* what an execution holds: its slot, the events it saw, and whether
                   \* it was given an event's id
    answers,       \* the texts enqueued for the customer (ob:slots:, ob:book:,
                   \* ob:cb-fallback: with the job's id)
    asked          \* the requests: what they change, how, the status they found until
                   \* they write another, and how far they are

vars == <<job, faults, migrated, calendar, booking, hand, answers, asked>>

NoBooking == [status |-> "absent", start |-> Free, event |-> FALSE]
EmptyHand == [slot |-> Free, seen |-> {}, event |-> FALSE]
NotAsked == [row |-> NoRow, slot |-> Free, found |-> "absent", at |-> "idle"]

Init ==
    /\ job = [k \in Jobs |-> IF k[1] = "book" THEN Ready ELSE Absent]
    /\ faults = 0
    /\ migrated \in BOOLEAN
    /\ calendar = [e \in Events |-> Free]
    /\ booking = [e \in Rows |-> NoBooking]
    /\ hand = [b \in Bookers |-> EmptyHand]
    /\ answers = {}
    /\ asked = [r \in Requests |-> NotAsked]

-----------------------------------------------------------------------------
(* Booking.                                                                *)

Own(b) == <<b, job[Book(b)].attempts>>
Kept == {e \in Events : calendar[e] # Free}

\* The handler of b goes on to the next step with what it now holds, or has failed.
Goes(b, step, h) ==
    /\ GoesOn(Book(b), step)
    /\ hand' = [hand EXCEPT ![b] = IF job'[Book(b)].at = step THEN h ELSE EmptyHand]

Start(b) ==
    /\ Claim(Book(b), "check")
    /\ UNCHANGED <<migrated, calendar, booking, hand, answers, asked>>

\* Mutant: the answer of the calendar is not looked at.
CheckBlind(b) ==
    /\ job[Book(b)].at = "check"
    /\ \E s \in Slots : Goes(b, "create", [EmptyHand EXCEPT !.slot = s, !.seen = Kept])
    /\ UNCHANGED <<migrated, calendar, booking, answers, asked>>

\* Settings, service and contact are read, the time resolved, the calendar asked.
\* Without booking automation or a calendar, when the slot is taken, or when no slot
\* of the week is free, a person calls back; without a time the free slots are offered.
Check(b) ==
    /\ job[Book(b)].at = "check"
    /\ \/ Goes(b, "task", EmptyHand)
       \/ Goes(b, "offer", EmptyHand)
       \/ \E s \in Slots :
             /\ \A e \in Kept : calendar[e] # s
             /\ Goes(b, "create", [EmptyHand EXCEPT !.slot = s, !.seen = Kept])
    /\ UNCHANGED <<migrated, calendar, booking, answers, asked>>

\* A calendar that cannot be read is not an error of the job: a person calls back.
CalendarFails(b) ==
    /\ job[Book(b)].at = "check"
    /\ Fault
    /\ job' = [job EXCEPT ![Book(b)].at = "task"]
    /\ UNCHANGED <<migrated, calendar, booking, hand, answers, asked>>

CreateEvent(b) ==
    /\ job[Book(b)].at = "create"
    /\ calendar' = [calendar EXCEPT ![Own(b)] = hand[b].slot]
    /\ Goes(b, "insert", [hand[b] EXCEPT !.seen = {}, !.event = TRUE])
    /\ UNCHANGED <<migrated, booking, answers, asked>>

\* No event, or one whose id never arrived: the booking goes on without it.
CreateEventFails(b) ==
    /\ job[Book(b)].at = "create"
    /\ Fault
    /\ \E s \in {Free, hand[b].slot} : calendar' = [calendar EXCEPT ![Own(b)] = s]
    /\ job' = [job EXCEPT ![Book(b)].at = "insert"]
    /\ hand' = [hand EXCEPT ![b].seen = {}]
    /\ UNCHANGED <<migrated, booking, answers, asked>>

\* Mutant: the event's id is stored with a confirmed booking only.
InsertConfirmedEvent(b) ==
    /\ job[Book(b)].at = "insert"
    /\ migrated
    /\ \E confirmed \in BOOLEAN :
          booking' = [booking EXCEPT ![Own(b)] =
              [status |-> "open", start |-> hand[b].slot, event |-> hand[b].event /\ confirmed]]
    /\ Goes(b, "confirm", EmptyHand)
    /\ UNCHANGED <<migrated, calendar, answers, asked>>

InsertBooking(b) ==
    /\ job[Book(b)].at = "insert"
    /\ migrated
    /\ booking' = [booking EXCEPT ![Own(b)] =
                      [status |-> "open", start |-> hand[b].slot, event |-> hand[b].event]]
    /\ Goes(b, "confirm", EmptyHand)
    /\ UNCHANGED <<migrated, calendar, answers, asked>>

\* The row, or the callback's task, has a column the database has not.
Rejected(b) ==
    /\ job[Book(b)].at \in {"insert", "task"}
    /\ ~migrated
    /\ Raises(Book(b))
    /\ hand' = [hand EXCEPT ![b] = EmptyHand]
    /\ UNCHANGED <<migrated, calendar, booking, answers, asked>>

\* The text to the customer; then the reminders of a confirmed booking and the event.
\* (advance_lead_stage knows no stage "booked" and does nothing.)
Answer(b, step, text) ==
    /\ job[Book(b)].at = step
    /\ answers' = answers \cup {<<text, b>>}
    /\ Goes(b, "report", EmptyHand)
    /\ UNCHANGED <<migrated, calendar, booking, asked>>
Confirm(b) == Answer(b, "confirm", "confirmation")
OfferSlots(b) == Answer(b, "offer", "slots")
CallBack(b) == Answer(b, "callback", "callback")

\* Mutant: the caller of _callback_fallback does not return.
FallbackTaskGoesOn(b) ==
    /\ job[Book(b)].at = "task"
    /\ migrated
    /\ answers' = answers \cup {<<"callback", b>>}
    /\ Goes(b, "offer", EmptyHand)
    /\ UNCHANGED <<migrated, calendar, booking, asked>>

\* _callback_fallback: the task and the conversation's status, then the text.
FallbackTask(b) ==
    /\ job[Book(b)].at = "task"
    /\ migrated
    /\ Goes(b, "callback", EmptyHand)
    /\ UNCHANGED <<migrated, calendar, booking, answers, asked>>

-----------------------------------------------------------------------------
(* The routes.                                                             *)

Known == {e \in Rows : booking[e].status # "absent"}
Unasked(r) == asked[r].at = "idle"

\* Mutant: the 409 is for a cancelled booking.
CancelReadsCancelled(r) ==
    /\ Unasked(r)
    /\ \E e \in Known :
          /\ booking[e].status # "cancelled"
          /\ asked' = [asked EXCEPT ![r] = [NotAsked EXCEPT
                       !.row = e, !.found = booking[e].status, !.at = "write"]]
    /\ UNCHANGED <<job, faults, migrated, calendar, booking, hand, answers>>

\* cancel_booking finds the booking open (else 409), ...
CancelReads(r) ==
    /\ Unasked(r)
    /\ \E e \in Known :
          /\ booking[e].status = "open"
          /\ asked' = [asked EXCEPT ![r] = [NotAsked EXCEPT
                       !.row = e, !.found = booking[e].status, !.at = "write"]]
    /\ UNCHANGED <<job, faults, migrated, calendar, booking, hand, answers>>

\* ... and cancels it without looking again.
Cancelled(r) == [booking EXCEPT ![asked[r].row].status = "cancelled"]
CancelWrites(r) ==
    /\ asked[r].at = "write"
    /\ booking' = Cancelled(r)
    /\ asked' = [asked EXCEPT ![r].found = "absent",
                              ![r].at = IF booking[asked[r].row].event THEN "cancel" ELSE "done"]
    /\ UNCHANGED <<job, faults, migrated, calendar, hand, answers>>

\* reschedule_booking, whatever the status was.  (A start past the old end without a
\* new end is refused by a check of the table.)
Reschedule(r) ==
    /\ Unasked(r)
    /\ \E e \in Known, s \in Slots :
          /\ booking' = [booking EXCEPT ![e].status = "open", ![e].start = s]
          /\ asked' = [asked EXCEPT ![r] = [NotAsked EXCEPT
                 !.row = e, !.slot = s, !.at = IF booking[e].event THEN "move" ELSE "done"]]
    /\ UNCHANGED <<job, faults, migrated, calendar, hand, answers>>

\* Mutant: what needs no new time needs no call to the calendar.
RequestEnqueuesMoves(r) ==
    /\ asked[r].at \in {"cancel", "move"}
    /\ job' = IF asked[r].at = "move" THEN Enqueued(job, Move(r)) ELSE job
    /\ asked' = [asked EXCEPT ![r].at = "done"]
    /\ UNCHANGED <<faults, migrated, calendar, booking, hand, answers>>

\* The job that takes the change to the calendar.
RequestEnqueues(r) ==
    /\ asked[r].at \in {"cancel", "move"}
    /\ job' = Enqueued(job, IF asked[r].at = "move" THEN Move(r) ELSE Cancel(asked[r].row))
    /\ asked' = [asked EXCEPT ![r].at = "done"]
    /\ UNCHANGED <<faults, migrated, calendar, booking, hand, answers>>

\* A call of the request fails, or the answer to its update is lost: 500, and nothing
\* tries again.
RequestFails(r) ==
    /\ asked[r].at \in {"write", "cancel", "move"}
    /\ Fault
    /\ \/ booking' = booking
       \/ asked[r].at = "write" /\ booking' = Cancelled(r)
    /\ asked' = [asked EXCEPT ![r].found = "absent", ![r].at = "done"]
    /\ UNCHANGED <<job, migrated, calendar, hand, answers>>

\* complete_booking, whatever the status was.
CompleteBooking(e) ==
    /\ e \in Known
    /\ booking' = [booking EXCEPT ![e].status = "completed"]
    /\ UNCHANGED <<job, faults, migrated, calendar, hand, answers, asked>>

OwnerAdds(s) ==
    /\ calendar[Owners] = Free
    /\ calendar' = [calendar EXCEPT ![Owners] = s]
    /\ UNCHANGED <<job, faults, migrated, booking, hand, answers, asked>>

-----------------------------------------------------------------------------
(* Synchronisation.                                                        *)

SyncJobs == {k \in Jobs : k[1] # "book"}
Target(k) == IF k[1] = "cancel" THEN [event |-> k[2], slot |-> Free]
             ELSE [event |-> asked[k[2]].row, slot |-> asked[k[2]].slot]

\* The event is deleted or moved; one that is gone stays gone.
Sync(k) ==
    /\ job[k].at = "sync"
    /\ LET t == Target(k)
       IN calendar' = IF calendar[t.event] = Free THEN calendar
                      ELSE [calendar EXCEPT ![t.event] = t.slot]
    /\ GoesOn(k, "report")
    /\ UNCHANGED <<migrated, booking, hand, answers, asked>>

\* Whatever the calendar answers, the job is done.
SyncSwallows(k) ==
    /\ job[k].at = "sync"
    /\ Fault
    /\ job' = [job EXCEPT ![k].at = "report"]
    /\ UNCHANGED <<migrated, calendar, booking, hand, answers, asked>>

-----------------------------------------------------------------------------
Booking(b) ==
    \/ Start(b) \/ Check(b) \/ CalendarFails(b) \/ CreateEvent(b) \/ CreateEventFails(b)
    \/ InsertBooking(b) \/ Rejected(b) \/ Confirm(b) \/ OfferSlots(b)
    \/ FallbackTask(b) \/ CallBack(b)

Synchronising(k) ==
    \/ Claim(k, "sync") /\ UNCHANGED <<migrated, calendar, booking, hand, answers, asked>>
    \/ Sync(k) \/ SyncSwallows(k)

Ends(k) ==
    /\ StepFails(k) \/ Complete(k)
    /\ hand' = [b \in Bookers |-> IF k = Book(b) THEN EmptyHand ELSE hand[b]]
    /\ UNCHANGED <<migrated, calendar, booking, answers, asked>>

Routes(r) ==
    CancelReads(r) \/ CancelWrites(r) \/ Reschedule(r) \/ RequestEnqueues(r) \/ RequestFails(r)

Next ==
    \/ \E b \in Bookers : Booking(b)
    \/ \E k \in SyncJobs : Synchronising(k)
    \/ \E k \in Jobs : Ends(k)
    \/ \E r \in Requests : Routes(r)
    \/ \E e \in Rows : CompleteBooking(e)
    \/ \E s \in Slots : OwnerAdds(s)

Spec == Init /\ [][Next]_vars

-----------------------------------------------------------------------------
(* Properties.                                                             *)

\* Every variable keeps its type.
TypeOK ==
    /\ job \in [Jobs -> JobRows(Steps)]
    /\ faults \in 0 .. MaxFaults
    /\ migrated \in BOOLEAN
    /\ calendar \in [Events -> Slots \cup {Free}]
    /\ booking \in [Rows -> [status : Statuses, start : Slots \cup {Free}, event : BOOLEAN]]
    /\ hand \in [Bookers -> [slot : Slots \cup {Free}, seen : SUBSET Events, event : BOOLEAN]]
    /\ answers \subseteq {"confirmation", "slots", "callback"} \X Bookers
    /\ asked \in [Requests -> [row : Rows \cup {NoRow}, slot : Slots \cup {Free}, found : Statuses,
                               at : {"idle", "write", "cancel", "move", "done"}]]

\* The event is created before the row that records it.  Each event without a row, of
\* no execution that is about to insert one, cost a fault of its own: the retry of a
\* job finds its own event in the slot and adds no second.  (Where the insert is
\* refused every time, an event is left behind without any fault.)
Orphans ==
    {e \in Rows : /\ calendar[e] # Free
                  /\ ~booking[e].event
                  /\ ~(job[Book(e[1])].at = "insert" /\ e = Own(e[1]))}
OrphanNeedsFault == migrated => Cardinality(Orphans) <= faults

\* An event enters a slot that holds another only if that one was not there when the
\* handler looked: it was created, or rescheduled without a look, in between.
Rescheduled(e) == \E r \in Requests : asked[r].row = e /\ job[Move(r)].state # "absent"
DoubleBookingNeedsRace ==
    [][\A e \in Rows : \A other \in Events \ {e} :
          /\ calendar[e] = Free
          /\ calendar'[e] # Free
          /\ calendar[other] = calendar'[e]
          => other \notin hand[e[1]].seen \/ Rescheduled(other)]_vars

\* A booking job that is done answered its customer; a second answer, such as a
\* callback to one whose booking stands, needs a fault between the first and the end.
AnsweredOnce ==
    \A b \in Bookers :
        LET n == Cardinality({a \in answers : a[2] = b})
        IN n <= 1 + faults /\ (job[Book(b)].state = "done" => n >= 1)

\* The cancellation writes by what it read.  It undoes a completion only if that
\* came between the two.
CompletionUndoneOnlyByRace ==
    [][\A e \in Rows :
          booking[e].status = "completed" /\ booking'[e].status = "cancelled" =>
              \E r \in Requests : /\ asked[r].row = e
                                  /\ asked[r].at = "write"
                                  /\ asked[r].found = "open"]_vars

\* Without faults the calendar follows a booking that was changed once: when no
\* request or job for it is under way, its event is at its start, or gone.
Changes(e) ==
    {k \in SyncJobs : job[k].state # "absent" /\ Target(k).event = e}
Changing(e) ==
    \/ \E r \in Requests : asked[r].row = e /\ asked[r].at \notin {"idle", "done"}
    \/ \E k \in Changes(e) : job[k].state \in {"ready", "running"}
CalendarFollowsBooking ==
    \A e \in Rows :
        faults = 0 /\ ~Changing(e) /\ Cardinality(Changes(e)) <= 1 =>
            CASE booking[e].status = "open" -> calendar[e] = booking[e].start
              [] booking[e].status = "cancelled" -> calendar[e] = Free
              [] OTHER -> TRUE
=============================================================================
