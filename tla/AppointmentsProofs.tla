-------------------------- MODULE AppointmentsProofs --------------------------
(***************************************************************************)
(* What Appointments guarantees for any bookers, requests, slots, attempts *)
(* and faults; no set of bookers or requests has to be finite.             *)
(*                                                                         *)
(* AppointmentsInv has five parts, each proved from those before it where  *)
(* it needs them:                                                          *)
(*   BaseInv     where each handler can be, and which rows it has stored;  *)
(*   RacesInv    what the handler that is about to create an event saw;    *)
(*   OrphansInv  events without a row, each of which cost a fault;         *)
(*   AnswersInv  the texts of a booker: one, and one more for each fault;  *)
(*   FollowsInv  without faults, the calendar's event of each stored row.  *)
(* A step is one of four kinds: a booking handler's turn, a synchronising  *)
(* handler's turn, the failure or completion of a job, and a request's     *)
(* call.  For each kind a lemma says which rows it leaves alone (Turn,     *)
(* OtherTypes, JobsGoOn); the parts are kept kind by kind.                 *)
(***************************************************************************)
EXTENDS Appointments, ExecutionProofs

\* The queue's row of a job, and a step that is one of its kind.
JobSound(k) ==
    /\ Sound(job[k])
    /\ k[1] = "book" => job[k].at # "sync"
    /\ k[1] # "book" => job[k].at \in {"idle", "sync", "report"}

\* A request names a stored booking.
AskedSound(r) ==
    /\ asked[r].at = "idle" => asked[r].row = NoRow
    /\ asked[r].at # "idle" => asked[r].row \in Known
    /\ asked[r].at = "write" => asked[r].found = "open"
    /\ asked[r].at = "move" => asked[r].slot \in Slots
    /\ job[Move(r)].state # "absent" => asked[r].at = "done" /\ asked[r].slot \in Slots

\* The row of an attempt is stored by its insert, and only then changed or cancelled.
RowSound(e) ==
    LET q == job[Book(e[1])]
    IN /\ e \notin Known => ~booking[e].event /\ job[Cancel(e)].state = "absent"
       /\ e \in Known =>
             \/ e[2] < q.attempts
             \/ e[2] = q.attempts /\ q.at \notin {"check", "create", "insert"}

\* The part of the invariant that the rest is built on.
BaseInv ==
    /\ TypeOK
    /\ \A k \in Jobs : JobSound(k)
    /\ \A r \in Requests : AskedSound(r)
    /\ \A e \in Rows : RowSound(e)

\* Whether the event of row e has been created.
Created(e) ==
    \/ e = Owners /\ calendar[e] # Free
    \/ /\ e \in Rows
       /\ LET q == job[Book(e[1])]
          IN \/ e[2] < q.attempts
             \/ e[2] = q.attempts /\ q.at \notin {"check", "create"}

\* What the handler of b saw is there, elsewhere unless it was moved since.
HandSound(b) ==
    /\ job[Book(b)].at = "create" => hand[b].slot \in Slots
    /\ job[Book(b)].at = "create" => ~hand[b].event
    /\ job[Book(b)].at = "create" =>
          \A x \in hand[b].seen :
              Created(x) /\ (calendar[x] # hand[b].slot \/ Rescheduled(x))

\* An event has been created, by the handler that holds it or by the owner.
RacesInv ==
    /\ \A e \in Events : calendar[e] # Free => Created(e)
    /\ \A b \in Bookers : HandSound(b)

\* The events without a row that no execution is about to store.
Potential ==
    {e \in Rows : /\ calendar[e] # Free
                  /\ ~booking[e].event
                  /\ ~(/\ job[Book(e[1])].at = "insert" /\ e = Own(e[1])
                       /\ hand[e[1]].event)}
\* Each of them cost a fault.
OrphansInv == migrated => IsFiniteSet(Potential) /\ Cardinality(Potential) <= faults

\* The texts of b.
Texts(b) == {a \in answers : a[2] = b}
\* The handler has no text to send any more.
Answered(b) == job[Book(b)].at = "report" \/ job[Book(b)].state = "done"
\* One text is sent by an execution that gets through; each other cost a fault.
AnswersSound(b) ==
    /\ Cardinality(Texts(b)) <= 1 + faults
    /\ ~Answered(b) => Cardinality(Texts(b)) <= faults
    /\ Answered(b) => Cardinality(Texts(b)) >= 1
\* That holds of every booker.
AnswersInv == \A b \in Bookers : AnswersSound(b)

\* Request r moves, or has moved, the event of row e, ...
Moves(r, e) == asked[r].row = e /\ (asked[r].at = "move" \/ job[Move(r)].state # "absent")
\* ... or is about to enqueue its cancellation, ...
ToCancel(r, e) == asked[r].row = e /\ asked[r].at = "cancel"
\* ... which is a job.
Cancelling(e) == job[Cancel(e)].state # "absent"
\* No request moves it, or just one does.
Unmoved(e) == \A r \in Requests : ~Moves(r, e)
MovedOnce(r, e) == Moves(r, e) /\ \A i \in Requests : Moves(i, e) => i = r

\* The job has taken its change to the calendar.
Synced(k) == job[k].at = "report" \/ job[k].state = "done"

\* Without faults: what the calendar has of a stored booking.
Stored(e) ==
    /\ booking[e].event
    /\ booking[e].status = "cancelled" =>
          Cancelling(e) \/ \E r \in Requests : ToCancel(r, e)
    /\ booking[e].status = "open" /\ Unmoved(e) =>
          ~Cancelling(e) /\ \A r \in Requests : ~ToCancel(r, e)
    /\ Unmoved(e) /\ ~Cancelling(e) => calendar[e] = booking[e].start
    /\ Synced(Cancel(e)) => calendar[e] = Free
    /\ ~Cancelling(e) => calendar[e] # Free
    /\ \A r \in Requests : MovedOnce(r, e) => booking[e].start = asked[r].slot
    /\ \A r \in Requests : MovedOnce(r, e) /\ ~Cancelling(e) /\ Synced(Move(r)) =>
          calendar[e] = asked[r].slot

\* A booking about to be stored has its event in the calendar.
ToStore(b) ==
    job[Book(b)].at = "insert" =>
        hand[b].slot \in Slots /\ hand[b].event /\ calendar[Own(b)] = hand[b].slot

\* The jobs that change an event: finitely many at any time.
Changed == {k \in SyncJobs : job[k].state # "absent"}
\* Without faults no change is given up, and the calendar has what it should.
FollowsInv ==
    /\ IsFiniteSet(Changed)
    /\ faults = 0 =>
          /\ \A k \in SyncJobs : job[k].state # "dead"
          /\ \A e \in Known : Stored(e)
          /\ \A b \in Bookers : ToStore(b)

\* The inductive invariant.
AppointmentsInv == BaseInv /\ RacesInv /\ OrphansInv /\ AnswersInv /\ FollowsInv
-----------------------------------------------------------------------------
(* The keys of jobs.                                                       *)

\* A key is that of a booking job, of a cancellation or of a move.
LEMMA Keys ==
  /\ \A b \in Bookers : Book(b) \in Jobs /\ Book(b)[1] = "book" /\ Book(b) \notin SyncJobs
  /\ \A b, c \in Bookers : Book(b) = Book(c) => b = c
  /\ \A e \in Rows : Cancel(e) \in SyncJobs /\ Cancel(e)[1] = "cancel" /\ Cancel(e)[2] = e
  /\ \A r \in Requests : Move(r) \in SyncJobs /\ Move(r)[1] = "move" /\ Move(r)[2] = r
  /\ \A k \in Jobs \ SyncJobs : \E b \in Bookers : k = Book(b)
  /\ \A k \in SyncJobs :
        \/ \E e \in Rows : k = Cancel(e)
        \/ \E r \in Requests : k = Move(r)
  /\ SyncJobs \subseteq Jobs
  BY DEF Jobs, SyncJobs, Book, Cancel, Move

\* A row is that of a booker's attempt, and no event of the owner.
LEMMA RowsAre ==
  /\ \A e \in Rows : e[1] \in Bookers /\ e[2] \in 1 .. MaxAttempts /\ e = <<e[1], e[2]>>
  /\ Owners \notin Rows /\ NoRow \notin Rows
  /\ Rows \subseteq Events /\ Owners \in Events /\ Events = Rows \cup {Owners}
  BY ExecutionAssumption DEF Rows, Owners, NoRow, Events

-----------------------------------------------------------------------------
(* Types and rows.                                                         *)

\* The execution of b, whose first steps are repeated by a new attempt only.
Ahead(b) ==
    LET p == job[Book(b)]
        q == job'[Book(b)]
    IN \/ q.attempts = p.attempts + 1 /\ p.at = "idle"
       \/ /\ q.attempts = p.attempts
          /\ q.at \in {"check", "create"} => p.at \in {"check", "create"}
          /\ q.at \in {"check", "create", "insert"} => p.at \in {"check", "create", "insert"}

\* Job k, which is not absent, takes a step, or its execution begins or ends.
Turn(k) ==
    /\ job' \in [Jobs -> JobRows(Steps)]
    /\ faults' \in 0 .. MaxFaults /\ faults <= faults'
    /\ OnlyOf(job, k)
    /\ JobSound(k)'
    /\ job[k].state # "absent" /\ job'[k].state # "absent"

\* A handler that goes on.
LEMMA TurnOn ==
  ASSUME TypeOK, NEW k \in Jobs, JobSound(k), job[k].at # "idle",
         NEW step \in Steps, GoesOn(k, step),
         k[1] = "book" => step # "sync",
         k[1] # "book" => step \in {"sync", "report"}
  PROVE  /\ Turn(k)
         /\ \/ faults' = faults /\ At(job[k], job'[k], step)
            \/ faults' = faults + 1 /\ Fell(job[k], job'[k])
  <1>0. /\ job \in [Jobs -> JobRows(Steps)] /\ faults \in 0 .. MaxFaults
        /\ step # "idle"
    BY DEF TypeOK, Steps
  <1>1. /\ job' \in [Jobs -> JobRows(Steps)] /\ faults' \in 0 .. MaxFaults
        /\ OnlyOf(job, k)
        /\ \/ faults' = faults /\ At(job[k], job'[k], step)
           \/ faults' = faults + 1 /\ Fell(job[k], job'[k])
    BY <1>0, GoingOn
  <1>2. Sound(job'[k])
    BY <1>0, <1>1, SoundRows DEF JobSound
  <1>3. faults <= faults'
    BY <1>0, <1>1
  <1>4. JobSound(k)'
    BY <1>1, <1>2 DEF JobSound, At, Fell
  <1>5. job[k].state # "absent" /\ job'[k].state # "absent"
    BY <1>1 DEF JobSound, Sound, At, Fell
  <1> QED BY <1>1, <1>3, <1>4, <1>5 DEF Turn

\* A handler whose call fails.
LEMMA TurnOff ==
  ASSUME TypeOK, NEW k \in Jobs, JobSound(k), StepFails(k)
  PROVE  Turn(k) /\ faults' = faults + 1 /\ Fell(job[k], job'[k])
  <1>0. /\ job \in [Jobs -> JobRows(Steps)] /\ faults \in 0 .. MaxFaults
        /\ job[k].at # "idle"
    BY DEF TypeOK, StepFails
  <1>1. /\ job' \in [Jobs -> JobRows(Steps)] /\ faults' \in 0 .. MaxFaults
        /\ OnlyOf(job, k) /\ faults' = faults + 1 /\ Fell(job[k], job'[k])
    BY <1>0, StepFailing
  <1>2. Sound(job'[k])
    BY <1>0, <1>1, SoundRows DEF JobSound
  <1> QED BY <1>0, <1>1, <1>2 DEF Turn, JobSound, Sound, Fell

\* A job that is claimed.
LEMMA TurnFirst ==
  ASSUME TypeOK, NEW k \in Jobs, JobSound(k),
         NEW step \in Steps, Claim(k, step), step = (IF k[1] = "book" THEN "check" ELSE "sync")
  PROVE  /\ Turn(k) /\ faults' = faults
         /\ job[k].state = "ready" /\ job[k].at = "idle"
         /\ job'[k] = [state |-> "running", attempts |-> job[k].attempts + 1, at |-> step]
  <1>0. job \in [Jobs -> JobRows(Steps)] /\ faults \in 0 .. MaxFaults /\ step # "idle"
    BY DEF TypeOK, Steps
  <1>1. /\ job' \in [Jobs -> JobRows(Steps)] /\ faults' = faults
        /\ OnlyOf(job, k)
        /\ job[k].state = "ready" /\ job[k].at = "idle"
        /\ job'[k] = [state |-> "running", attempts |-> job[k].attempts + 1, at |-> step]
    BY <1>0, Claiming DEF JobSound
  <1>2. Sound(job'[k])
    BY <1>0, <1>1, SoundRows DEF JobSound
  <1> QED BY <1>0, <1>1, <1>2 DEF Turn, JobSound

\* A job that is done.
LEMMA TurnLast ==
  ASSUME TypeOK, NEW k \in Jobs, JobSound(k), Complete(k)
  PROVE  /\ Turn(k) /\ faults' = faults
         /\ job[k].at = "report"
         /\ job'[k] = [state |-> "done", attempts |-> job[k].attempts, at |-> "idle"]
  <1>0. job \in [Jobs -> JobRows(Steps)] /\ faults \in 0 .. MaxFaults
    BY DEF TypeOK
  <1>1. /\ job' \in [Jobs -> JobRows(Steps)] /\ faults' = faults
        /\ OnlyOf(job, k)
        /\ job[k].at = "report"
        /\ job'[k] = [state |-> "done", attempts |-> job[k].attempts, at |-> "idle"]
    BY <1>0, Completing
  <1>2. Sound(job'[k])
    BY <1>0, <1>1, SoundRows DEF JobSound
  <1> QED BY <1>0, <1>1, <1>2 DEF Turn, JobSound, Sound

\* The handler's job that is moved by hand, at no cost or that of one fault.
LEMMA TurnTo ==
  ASSUME TypeOK, NEW k \in Jobs, JobSound(k), job[k].at # "idle",
         NEW step \in Steps, job' = [job EXCEPT ![k].at = step],
         k[1] = "book" => step # "sync",
         k[1] # "book" => step \in {"sync", "report"}, Fault
  PROVE  Turn(k) /\ faults' = faults + 1 /\ At(job[k], job'[k], step)
  <1>0. /\ job \in [Jobs -> JobRows(Steps)] /\ faults \in 0 .. MaxFaults
        /\ step # "idle"
    BY DEF TypeOK, Steps
  <1>1. job' \in [Jobs -> JobRows(Steps)] /\ OnlyOf(job, k) /\ At(job[k], job'[k], step)
    BY <1>0 DEF JobRows, OnlyOf, At
  <1>2. faults' = faults + 1 /\ faults' \in 0 .. MaxFaults
    BY <1>0, ExecutionAssumption DEF Fault
  <1>3. Sound(job'[k])
    BY <1>0, <1>1, SoundRows DEF JobSound
  <1> QED BY <1>0, <1>1, <1>2, <1>3 DEF Turn, JobSound, Sound, At

\* A handler that raises.
LEMMA TurnBack ==
  ASSUME TypeOK, NEW k \in Jobs, JobSound(k), job[k].at # "idle", Raises(k)
  PROVE  Turn(k) /\ faults' = faults /\ Fell(job[k], job'[k])
  <1>0. job \in [Jobs -> JobRows(Steps)] /\ faults \in 0 .. MaxFaults
    BY DEF TypeOK
  <1>1. /\ job' \in [Jobs -> JobRows(Steps)] /\ OnlyOf(job, k)
        /\ faults' = faults /\ Fell(job[k], job'[k])
    BY <1>0, Failing DEF Raises
  <1>2. Sound(job'[k])
    BY <1>0, <1>1, SoundRows DEF JobSound
  <1> QED BY <1>0, <1>1, <1>2 DEF Turn, JobSound, Sound, Fell

-----------------------------------------------------------------------------
(* What a step of a booking job does.                                      *)

\* The values of a booker's hand.
Holds == [slot : Slots \cup {Free}, seen : SUBSET Events, event : BOOLEAN]

\* The job of b moves, and with it what its execution holds.
BookTurn(b) ==
    /\ Turn(Book(b)) /\ Ahead(b)
    /\ hand' \in [Bookers -> Holds] /\ \A c \in Bookers : c # b => hand'[c] = hand[c]
    /\ UNCHANGED <<migrated, asked>>

\* It claims, looks, decides, or is refused: nothing is stored.
Looks(b) ==
    /\ UNCHANGED <<calendar, booking, answers>>
    /\ job'[Book(b)].at = "create" =>
          /\ hand'[b].slot \in Slots /\ ~hand'[b].event
          /\ hand'[b].seen = Kept /\ \A e \in Kept : calendar[e] # hand'[b].slot
    /\ job'[Book(b)].at # "insert"
    /\ ~Answered(b) /\ ~Answered(b)'
    /\ job[Book(b)].at = "insert" => ~migrated

\* It creates an event, and knows of it unless that cost a fault.
Creates(b) ==
    /\ job[Book(b)].at = "create"
    /\ job'[Book(b)].at \in {"insert", "idle"}
    /\ UNCHANGED <<booking, answers>>
    /\ ~Answered(b)'
    /\ \E s \in {Free, hand[b].slot} : calendar' = [calendar EXCEPT ![Own(b)] = s]
    /\ \/ faults' = faults + 1
       \/ /\ faults' = faults /\ job'[Book(b)].at = "insert"
          /\ calendar'[Own(b)] = hand[b].slot
          /\ hand'[b].event /\ hand'[b].slot = hand[b].slot

\* It stores its row.
Inserts(b) ==
    /\ job[Book(b)].at = "insert"
    /\ job'[Book(b)].at \in {"confirm", "idle"}
    /\ ~Answered(b)'
    /\ UNCHANGED <<calendar, answers>>
    /\ booking' = [booking EXCEPT ![Own(b)] =
                      [status |-> "open", start |-> hand[b].slot, event |-> hand[b].event]]

\* It answers the customer.
Answers(b) ==
    /\ job[Book(b)].at \in {"confirm", "offer", "callback"}
    /\ job'[Book(b)].at \in {"report", "idle"}
    /\ UNCHANGED <<calendar, booking>>
    /\ \E text \in {"confirmation", "slots", "callback"} : answers' = answers \cup {<<text, b>>}
    /\ Answered(b)' \/ faults' = faults + 1

\* A handler that goes on takes along what it now holds, or has failed.
LEMMA Going ==
  ASSUME TypeOK, NEW b \in Bookers, JobSound(Book(b)), job[Book(b)].at # "idle",
         NEW step \in Steps, step # "sync", NEW h \in Holds, Goes(b, step, h)
  PROVE  /\ Turn(Book(b))
         /\ hand' \in [Bookers -> Holds] /\ \A c \in Bookers : c # b => hand'[c] = hand[c]
         /\ \/ faults' = faults /\ At(job[Book(b)], job'[Book(b)], step) /\ hand'[b] = h
            \/ /\ faults' = faults + 1 /\ Fell(job[Book(b)], job'[Book(b)])
               /\ hand'[b] = EmptyHand
  <1>1. /\ Turn(Book(b))
        /\ \/ faults' = faults /\ At(job[Book(b)], job'[Book(b)], step)
           \/ faults' = faults + 1 /\ Fell(job[Book(b)], job'[Book(b)])
    BY Keys, TurnOn DEF Goes
  <1>2. EmptyHand \in Holds /\ hand \in [Bookers -> Holds] /\ step # "idle"
    BY DEF EmptyHand, Holds, TypeOK, Steps
  <1>3. hand' = [hand EXCEPT ![b] = IF job'[Book(b)].at = step THEN h ELSE EmptyHand]
    BY DEF Goes
  <1>4. CASE At(job[Book(b)], job'[Book(b)], step) /\ faults' = faults
    BY <1>1, <1>2, <1>3, <1>4 DEF At
  <1>5. CASE Fell(job[Book(b)], job'[Book(b)]) /\ faults' = faults + 1
    BY <1>1, <1>2, <1>3, <1>5 DEF Fell
  <1> QED BY <1>1, <1>4, <1>5

\* What an execution of b holds, and its row.
LEMMA BookTypes ==
  ASSUME TypeOK, NEW b \in Bookers, JobSound(Book(b))
  PROVE  /\ hand[b] \in Holds /\ hand \in [Bookers -> Holds] /\ EmptyHand \in Holds
         /\ job[Book(b)].attempts \in 0 .. MaxAttempts
         /\ job[Book(b)].at # "idle" => Own(b) \in Rows /\ Own(b)[1] = b
                                        /\ Own(b)[2] = job[Book(b)].attempts
         /\ job[Book(b)].at # "idle" => job[Book(b)].state = "running"
  <1>1. hand[b] \in Holds /\ hand \in [Bookers -> Holds] /\ EmptyHand \in Holds
    BY DEF TypeOK, Holds, EmptyHand
  <1>2. job[Book(b)].attempts \in 0 .. MaxAttempts
    BY Keys DEF TypeOK, JobRows
  <1>3. job[Book(b)].at # "idle" => job[Book(b)].attempts >= 1 /\ job[Book(b)].state = "running"
    BY DEF JobSound, Sound
  <1>4. job[Book(b)].at # "idle" => Own(b) \in Rows
    BY <1>2, <1>3, ExecutionAssumption DEF Own, Rows
  <1> QED BY <1>1, <1>2, <1>3, <1>4 DEF Own

\* Every step of a booking job is of one of these kinds.
LEMMA BookingDoes ==
  ASSUME BaseInv, NEW b \in Bookers, Booking(b)
  PROVE  BookTurn(b) /\ (Looks(b) \/ Creates(b) \/ Inserts(b) \/ Answers(b))
  <1> USE DEF BaseInv
  <1> DEFINE k == Book(b)
  <1>0. k \in Jobs /\ k[1] = "book" /\ JobSound(k)
    BY Keys
  <1>1. /\ hand[b] \in Holds /\ hand \in [Bookers -> Holds] /\ EmptyHand \in Holds
        /\ job[k].attempts \in 0 .. MaxAttempts
        /\ job[k].at # "idle" => job[k].state = "running"
    BY <1>0, BookTypes
  <1> HIDE DEF k
  <1>2. ASSUME Start(b)
        PROVE  BookTurn(b) /\ Looks(b)
    <2>1. Claim(k, "check") /\ UNCHANGED <<migrated, calendar, booking, hand, answers, asked>>
      BY <1>2 DEF Start, k
    <2>2. /\ Turn(k)
          /\ job[k].state = "ready" /\ job[k].at = "idle"
          /\ job'[k] = [state |-> "running", attempts |-> job[k].attempts + 1, at |-> "check"]
      BY <1>0, <2>1, TurnFirst DEF Steps
    <2> QED BY <1>1, <2>1, <2>2 DEF BookTurn, Looks, Answered, Ahead, k
  <1>3. ASSUME Check(b)
        PROVE  BookTurn(b) /\ Looks(b)
    <2>0. job[k].at = "check" /\ UNCHANGED <<migrated, calendar, booking, answers, asked>>
      BY <1>3 DEF Check, k
    <2>1. ASSUME NEW step \in {"task", "offer"}, Goes(b, step, EmptyHand)
          PROVE  BookTurn(b) /\ Looks(b)
      BY <1>0, <1>1, <2>0, <2>1, Going
      DEF BookTurn, Looks, Answered, Ahead, At, Fell, Steps, k
    <2>2. ASSUME NEW s \in Slots, \A e \in Kept : calendar[e] # s,
                 Goes(b, "create", [EmptyHand EXCEPT !.slot = s, !.seen = Kept])
          PROVE  BookTurn(b) /\ Looks(b)
      <3> DEFINE h == [EmptyHand EXCEPT !.slot = s, !.seen = Kept]
      <3>1. h \in Holds /\ h.slot = s /\ h.seen = Kept /\ ~h.event
        BY DEF EmptyHand, Holds, Kept
      <3> HIDE DEF h
      <3>2. /\ Turn(k)
            /\ hand' \in [Bookers -> Holds]
            /\ \A c \in Bookers : c # b => hand'[c] = hand[c]
            /\ \/ faults' = faults /\ At(job[k], job'[k], "create") /\ hand'[b] = h
               \/ faults' = faults + 1 /\ Fell(job[k], job'[k])
        BY <1>0, <2>0, <2>2, <3>1, Going DEF Steps, k, h
      <3>3. BookTurn(b)
        BY <2>0, <3>2 DEF BookTurn, Ahead, At, Fell, k
      <3>4. job'[k].at = "create" => hand'[b] = h
        BY <3>2 DEF Fell
      <3>5. job'[k].at \in {"create", "idle"} /\ job'[k].state # "done"
        BY <1>1, <2>0, <3>2 DEF At, Fell
      <3>6. Looks(b)
        BY <1>1, <2>0, <2>2, <3>1, <3>4, <3>5 DEF Looks, Answered, k
      <3> QED BY <3>3, <3>6
    <2> QED BY <1>3, <2>1, <2>2 DEF Check
  <1>4. ASSUME CalendarFails(b)
        PROVE  BookTurn(b) /\ Looks(b)
    <2>0. /\ job[k].at = "check" /\ Fault /\ job' = [job EXCEPT ![k].at = "task"]
          /\ UNCHANGED <<migrated, calendar, booking, hand, answers, asked>>
      BY <1>4 DEF CalendarFails, k
    <2>1. Turn(k) /\ At(job[k], job'[k], "task")
      BY <1>0, <2>0, TurnTo DEF Steps
    <2> QED BY <1>1, <2>0, <2>1 DEF BookTurn, Looks, Answered, Ahead, At, k
  <1>5. ASSUME CreateEvent(b)
        PROVE  BookTurn(b) /\ Creates(b)
    <2> DEFINE h == [hand[b] EXCEPT !.seen = {}, !.event = TRUE]
    <2>0. /\ job[k].at = "create" /\ UNCHANGED <<migrated, booking, answers, asked>>
          /\ calendar' = [calendar EXCEPT ![Own(b)] = hand[b].slot]
          /\ Goes(b, "insert", h)
      BY <1>5 DEF CreateEvent, k
    <2>1. h \in Holds /\ h.slot = hand[b].slot /\ h.event
      BY <1>1 DEF Holds
    <2> HIDE DEF h
    <2>2. /\ Turn(k)
          /\ hand' \in [Bookers -> Holds]
          /\ \A c \in Bookers : c # b => hand'[c] = hand[c]
          /\ \/ faults' = faults /\ At(job[k], job'[k], "insert") /\ hand'[b] = h
             \/ faults' = faults + 1 /\ Fell(job[k], job'[k])
      BY <1>0, <2>0, <2>1, Going DEF Steps, k
    <2>3. BookTurn(b)
      BY <2>0, <2>2 DEF BookTurn, Ahead, At, Fell, k
    <2>4. ~Answered(b)'
      BY <1>1, <2>0, <2>2 DEF Answered, At, Fell, k
    <2>5. calendar'[Own(b)] = hand[b].slot
      BY <1>1, <2>0, BookTypes, <1>0, RowsAre DEF TypeOK, k
    <2>6. Creates(b)
      BY <2>0, <2>1, <2>2, <2>4, <2>5 DEF Creates, At, Fell, k
    <2> QED BY <2>3, <2>6
  <1>6. ASSUME CreateEventFails(b)
        PROVE  BookTurn(b) /\ Creates(b)
    <2>0. /\ job[k].at = "create" /\ Fault /\ job' = [job EXCEPT ![k].at = "insert"]
          /\ hand' = [hand EXCEPT ![b].seen = {}]
          /\ UNCHANGED <<migrated, booking, answers, asked>>
          /\ \E s \in {Free, hand[b].slot} : calendar' = [calendar EXCEPT ![Own(b)] = s]
      BY <1>6 DEF CreateEventFails, k
    <2>1. Turn(k) /\ faults' = faults + 1 /\ At(job[k], job'[k], "insert")
      BY <1>0, <2>0, TurnTo DEF Steps
    <2>2. hand' \in [Bookers -> Holds] /\ \A c \in Bookers : c # b => hand'[c] = hand[c]
      BY <1>1, <2>0 DEF Holds
    <2> QED BY <1>1, <2>0, <2>1, <2>2 DEF BookTurn, Creates, Answered, Ahead, At, k
  <1>7. ASSUME InsertBooking(b)
        PROVE  BookTurn(b) /\ Inserts(b)
    <2>0. /\ job[k].at = "insert" /\ Goes(b, "confirm", EmptyHand)
          /\ UNCHANGED <<migrated, calendar, answers, asked>>
          /\ booking' = [booking EXCEPT ![Own(b)] =
                [status |-> "open", start |-> hand[b].slot, event |-> hand[b].event]]
      BY <1>7 DEF InsertBooking, k
    <2> QED BY <1>0, <1>1, <2>0, Going
            DEF BookTurn, Inserts, Answered, Ahead, At, Fell, Steps, k
  <1>8. ASSUME Rejected(b)
        PROVE  BookTurn(b) /\ Looks(b)
    <2>0. /\ job[k].at \in {"insert", "task"} /\ ~migrated /\ Raises(k)
          /\ hand' = [hand EXCEPT ![b] = EmptyHand]
          /\ UNCHANGED <<migrated, calendar, booking, answers, asked>>
      BY <1>8 DEF Rejected, k
    <2>1. Turn(k) /\ Fell(job[k], job'[k])
      BY <1>0, <2>0, TurnBack
    <2> QED BY <1>1, <2>0, <2>1 DEF BookTurn, Looks, Answered, Ahead, Fell, k
  <1>9. ASSUME NEW step \in {"confirm", "offer", "callback"},
               NEW text \in {"confirmation", "slots", "callback"}, Answer(b, step, text)
        PROVE  BookTurn(b) /\ Answers(b)
    <2>0. /\ job[k].at = step /\ answers' = answers \cup {<<text, b>>}
          /\ Goes(b, "report", EmptyHand)
          /\ UNCHANGED <<migrated, calendar, booking, asked>>
      BY <1>9 DEF Answer, k
    <2>1. /\ Turn(k)
          /\ hand' \in [Bookers -> Holds]
          /\ \A c \in Bookers : c # b => hand'[c] = hand[c]
          /\ \/ At(job[k], job'[k], "report")
             \/ faults' = faults + 1 /\ Fell(job[k], job'[k])
      BY <1>0, <1>1, <2>0, Going DEF Steps, k
    <2>2. BookTurn(b)
      BY <2>0, <2>1 DEF BookTurn, Ahead, At, Fell, k
    <2>3. Answers(b)
      BY <2>0, <2>1 DEF Answers, Answered, At, Fell, k
    <2> QED BY <2>2, <2>3
  <1>10. ASSUME FallbackTask(b)
         PROVE  BookTurn(b) /\ Looks(b)
    <2>0. /\ job[k].at = "task" /\ Goes(b, "callback", EmptyHand)
          /\ UNCHANGED <<migrated, calendar, booking, answers, asked>>
      BY <1>10 DEF FallbackTask, k
    <2> QED BY <1>0, <1>1, <2>0, Going
            DEF BookTurn, Looks, Answered, Ahead, At, Fell, Steps, k
  <1> QED BY <1>2, <1>3, <1>4, <1>5, <1>6, <1>7, <1>8, <1>9, <1>10
          DEF Booking, Confirm, OfferSlots, CallBack

-----------------------------------------------------------------------------
(* What the other steps do.                                                *)

\* An execution fails, or its job is done.
LEMMA EndDoes ==
  ASSUME BaseInv, NEW k \in Jobs, Ends(k)
  PROVE  /\ Turn(k) /\ job[k].at # "idle" /\ job'[k].at = "idle"
         /\ job'[k].attempts = job[k].attempts
         /\ UNCHANGED <<migrated, calendar, booking, answers, asked>>
         /\ hand' \in [Bookers -> Holds] /\ \A c \in Bookers : Book(c) # k => hand'[c] = hand[c]
         /\ \/ faults' = faults + 1 /\ job'[k].state \in {"ready", "dead"}
            \/ faults' = faults /\ job[k].at = "report" /\ job'[k].state = "done"
  <1>1. /\ UNCHANGED <<migrated, calendar, booking, answers, asked>>
        /\ hand' = [b \in Bookers |-> IF k = Book(b) THEN EmptyHand ELSE hand[b]]
    BY DEF Ends
  <1>2. hand' \in [Bookers -> Holds] /\ \A c \in Bookers : Book(c) # k => hand'[c] = hand[c]
    BY <1>1 DEF BaseInv, TypeOK, Holds, EmptyHand
  <1>3. CASE StepFails(k)
    <2>1. Turn(k) /\ faults' = faults + 1 /\ Fell(job[k], job'[k]) /\ job[k].at # "idle"
      BY <1>3, TurnOff DEF BaseInv, StepFails
    <2> QED BY <1>1, <1>2, <2>1 DEF Fell
  <1>4. CASE Complete(k)
    <2>1. /\ Turn(k) /\ faults' = faults
          /\ job[k].at = "report"
          /\ job'[k] = [state |-> "done", attempts |-> job[k].attempts, at |-> "idle"]
      BY <1>4, TurnLast DEF BaseInv
    <2> QED BY <1>1, <1>2, <2>1
  <1> QED BY <1>3, <1>4 DEF Ends

\* The calendar is told of a change, unless that costs a fault.
Tells(k) ==
    /\ job[k].at = "sync" /\ job[k].state = "running"
    /\ \/ calendar' = IF calendar[Target(k).event] = Free THEN calendar
                       ELSE [calendar EXCEPT ![Target(k).event] = Target(k).slot]
       \/ calendar' = calendar /\ faults' = faults + 1
    /\ faults' = faults => job'[k].at = "report" /\ job'[k].state = "running"

\* A synchronisation is claimed, or takes its change to the calendar.
LEMMA SyncDoes ==
  ASSUME BaseInv, NEW k \in SyncJobs, Synchronising(k)
  PROVE  /\ Turn(k)
         /\ UNCHANGED <<migrated, booking, hand, answers, asked>>
         /\ \/ /\ calendar' = calendar /\ faults' = faults
               /\ job[k].state = "ready" /\ job[k].at = "idle"
               /\ job'[k].state = "running" /\ job'[k].at = "sync"
            \/ Tells(k)
  <1>0. k \in Jobs /\ k[1] # "book" /\ JobSound(k) /\ TypeOK
    BY Keys DEF BaseInv, SyncJobs
  <1>1. CASE Claim(k, "sync") /\ UNCHANGED <<migrated, calendar, booking, hand, answers, asked>>
    <2>1. /\ Turn(k) /\ faults' = faults
          /\ job[k].state = "ready" /\ job[k].at = "idle"
          /\ job'[k] = [state |-> "running", attempts |-> job[k].attempts + 1, at |-> "sync"]
      BY <1>0, <1>1, TurnFirst DEF Steps
    <2> QED BY <1>1, <2>1
  <1>2. CASE Sync(k)
    <2>1. job[k].at = "sync" /\ GoesOn(k, "report")
      BY <1>2 DEF Sync
    <2>2. /\ Turn(k)
          /\ \/ faults' = faults /\ At(job[k], job'[k], "report")
             \/ faults' = faults + 1 /\ Fell(job[k], job'[k])
      BY <1>0, <2>1, TurnOn DEF Steps
    <2>3. job[k].state = "running"
      BY <1>0, <2>1 DEF JobSound, Sound
    <2>4. faults \in Nat
      BY <1>0, ExecutionAssumption DEF TypeOK
    <2> QED BY <1>2, <2>2, <2>3, <2>4 DEF Sync, Tells, At
  <1>3. CASE SyncSwallows(k)
    <2>1. job[k].at = "sync" /\ Fault /\ job' = [job EXCEPT ![k].at = "report"]
      BY <1>3 DEF SyncSwallows
    <2>2. Turn(k) /\ faults' = faults + 1
      BY <1>0, <2>1, TurnTo DEF Steps
    <2>3. job[k].state = "running"
      BY <1>0, <2>1 DEF JobSound, Sound
    <2>4. faults \in Nat
      BY <1>0, ExecutionAssumption DEF TypeOK
    <2> QED BY <1>3, <2>2, <2>3, <2>4 DEF SyncSwallows, Tells
  <1> QED BY <1>1, <1>2, <1>3 DEF Synchronising

-----------------------------------------------------------------------------
(* Types, rows and requests.                                               *)

\* Jobs go on, and no execution repeats its first steps.
JobsGoOn ==
    /\ job' \in [Jobs -> JobRows(Steps)]
    /\ faults' \in 0 .. MaxFaults /\ faults <= faults'
    /\ \A k \in Jobs : JobSound(k)'
    /\ \A b \in Bookers : Ahead(b)

\* No job is added.
SameJobs == \A k \in Jobs : job'[k].state = "absent" <=> job[k].state = "absent"

\* The rest of the types.
OtherTypes ==
    /\ migrated \in BOOLEAN
    /\ calendar \in [Events -> Slots \cup {Free}]
    /\ booking \in [Rows -> [status : Statuses, start : Slots \cup {Free}, event : BOOLEAN]]
    /\ hand \in [Bookers -> Holds]
    /\ answers \subseteq {"confirmation", "slots", "callback"} \X Bookers
    /\ asked \in
         [Requests -> [row : Rows \cup {NoRow}, slot : Slots \cup {Free}, found : Statuses,
                       at : {"idle", "write", "cancel", "move", "done"}]]

\* One job moves.
LEMMA OneTurn ==
  ASSUME BaseInv, NEW k \in Jobs, Turn(k), \A b \in Bookers : k = Book(b) => Ahead(b)
  PROVE  JobsGoOn /\ SameJobs
  <1>1. \A i \in Jobs : i # k => job'[i] = job[i]
    BY DEF Turn, OnlyOf, BaseInv, TypeOK
  <1>2. \A i \in Jobs : JobSound(i)'
    BY <1>1 DEF Turn, BaseInv, JobSound
  <1>3. \A b \in Bookers : Ahead(b)
    BY <1>1, Keys DEF Ahead
  <1>4. SameJobs
    BY <1>1 DEF SameJobs, Turn
  <1> QED BY <1>2, <1>3, <1>4 DEF JobsGoOn, Turn

\* The bookings that are there stay, and requests stand.
LEMMA RowsStay ==
  ASSUME BaseInv, JobsGoOn, SameJobs,
         UNCHANGED asked,
         \A e \in Rows : booking'[e] = booking[e]
  PROVE  /\ \A r \in Requests : AskedSound(r)'
         /\ \A e \in Rows : RowSound(e)'
  <1>1. Known' = Known
    BY DEF Known
  <1>2. \A r \in Requests : AskedSound(r)'
    BY <1>1, Keys DEF BaseInv, AskedSound, SameJobs
  <1>3. ASSUME NEW e \in Rows
        PROVE  RowSound(e)'
    <2>1. e[1] \in Bookers /\ e[2] \in Nat
      BY RowsAre
    <2>2. job[Book(e[1])].attempts \in Nat /\ job'[Book(e[1])].attempts \in Nat
      BY <2>1, Keys DEF BaseInv, TypeOK, JobsGoOn, JobRows
    <2>3. RowSound(e) /\ Ahead(e[1])
      BY <2>1 DEF BaseInv, JobsGoOn
    <2> QED BY <1>1, <2>1, <2>2, <2>3, Keys DEF RowSound, Ahead, SameJobs
  <1> QED BY <1>2, <1>3

\* An insert stores the execution's own row, which was not there.
LEMMA InsertStores ==
  ASSUME BaseInv, JobsGoOn, SameJobs, NEW b \in Bookers, BookTurn(b), Inserts(b)
  PROVE  /\ Own(b) \in Rows /\ Own(b) \notin Known /\ Known' = Known \cup {Own(b)}
         /\ \A e \in Rows : e # Own(b) => booking'[e] = booking[e]
         /\ booking'[Own(b)] =
                [status |-> "open", start |-> hand[b].slot, event |-> hand[b].event]
         /\ \A r \in Requests : AskedSound(r)'
         /\ \A e \in Rows : RowSound(e)'
  <1>1. Own(b) \in Rows /\ Own(b)[1] = b /\ Own(b)[2] = job[Book(b)].attempts
    BY Keys, BookTypes DEF BaseInv, Inserts
  <1>2. Own(b) \notin Known
    BY <1>1, Keys DEF BaseInv, RowSound, Inserts, TypeOK, JobRows
  <1>3. /\ \A e \in Rows : e # Own(b) => booking'[e] = booking[e]
        /\ booking'[Own(b)] =
               [status |-> "open", start |-> hand[b].slot, event |-> hand[b].event]
    BY <1>1 DEF Inserts, BaseInv, TypeOK
  <1>4. Known' = Known \cup {Own(b)}
    BY <1>1, <1>3 DEF Known
  <1>5. \A r \in Requests : AskedSound(r)'
    BY <1>4, Keys DEF BaseInv, AskedSound, SameJobs, BookTurn
  <1>6. ASSUME NEW e \in Rows
        PROVE  RowSound(e)'
    <2>1. e[1] \in Bookers /\ e[2] \in Nat
      BY RowsAre
    <2>2. job[Book(e[1])].attempts \in Nat /\ job'[Book(e[1])].attempts \in Nat
      BY <2>1, Keys DEF BaseInv, TypeOK, JobsGoOn, JobRows
    <2>3. RowSound(e) /\ Ahead(e[1])
      BY <2>1 DEF BaseInv, JobsGoOn
    <2>4. CASE e # Own(b)
      BY <1>3, <1>4, <2>1, <2>2, <2>3, <2>4, Keys DEF RowSound, Ahead, SameJobs
    <2>5. CASE e = Own(b)
      <3>1. /\ job'[Book(b)].attempts = job[Book(b)].attempts
            /\ job'[Book(b)].at \notin {"check", "create", "insert"}
        BY <1>1, <2>2, <2>3, <2>5 DEF Inserts, Ahead
      <3> QED BY <1>1, <1>4, <2>5, <3>1 DEF RowSound
    <2> QED BY <2>4, <2>5
  <1> QED BY <1>1, <1>2, <1>3, <1>4, <1>5, <1>6

\* A step of no job.
LEMMA NoTurn ==
  ASSUME BaseInv, job' = job, faults' \in 0 .. MaxFaults, faults <= faults'
  PROVE  JobsGoOn /\ SameJobs
  <1>1. \A k \in Jobs : JobSound(k)'
    BY DEF BaseInv, JobSound
  <1>2. \A b \in Bookers : Ahead(b)
    BY DEF Ahead
  <1> QED BY <1>1, <1>2 DEF JobsGoOn, SameJobs, BaseInv, TypeOK

\* A request moves; bookings that are there stay there.
LEMMA OneRequest ==
  ASSUME BaseInv, job' = job, NEW r \in Requests, Known' = Known,
         \A e \in Rows : booking'[e].event = booking[e].event,
         \A i \in Requests : i # r => asked'[i] = asked[i],
         AskedSound(r)'
  PROVE  /\ \A i \in Requests : AskedSound(i)'
         /\ \A e \in Rows : RowSound(e)'
  <1>1. \A i \in Requests : AskedSound(i)'
    BY DEF BaseInv, AskedSound
  <1>2. \A e \in Rows : RowSound(e)'
    BY DEF BaseInv, RowSound
  <1> QED BY <1>1, <1>2

\* The table of bookings with one row's status and start changed.
LEMMA OneBooking ==
  ASSUME BaseInv, NEW e \in Known, NEW status \in Statuses \ {"absent"},
         \/ booking' = [booking EXCEPT ![e].status = status]
         \/ \E s \in Slots : booking' = [booking EXCEPT ![e].status = status, ![e].start = s]
  PROVE  /\ booking' \in
              [Rows -> [status : Statuses, start : Slots \cup {Free}, event : BOOLEAN]]
         /\ Known' = Known /\ booking'[e].status = status
         /\ \A i \in Rows : booking'[i].event = booking[i].event
         /\ \A i \in Rows : i # e => booking'[i] = booking[i]
  <1>0. /\ booking \in [Rows -> [status : Statuses, start : Slots \cup {Free}, event : BOOLEAN]]
        /\ e \in Rows
    BY DEF BaseInv, TypeOK, Known
  <1>1. CASE booking' = [booking EXCEPT ![e].status = status]
    BY <1>0, <1>1 DEF Known, Statuses
  <1>2. ASSUME NEW s \in Slots, booking' = [booking EXCEPT ![e].status = status, ![e].start = s]
        PROVE  /\ booking' \in
                    [Rows -> [status : Statuses, start : Slots \cup {Free}, event : BOOLEAN]]
               /\ Known' = Known /\ booking'[e].status = status
               /\ \A i \in Rows : booking'[i].event = booking[i].event
               /\ \A i \in Rows : i # e => booking'[i] = booking[i]
    <2>1. booking' \in [Rows -> [status : Statuses, start : Slots \cup {Free}, event : BOOLEAN]]
      BY <1>0, <1>2
    <2>2. booking'[e].status = status /\ booking'[e].event = booking[e].event
      <3>1. booking[e] \in [status : Statuses, start : Slots \cup {Free}, event : BOOLEAN]
        BY <1>0
      <3>2. booking'[e] = [booking[e] EXCEPT !.status = status, !.start = s]
        BY <1>0, <1>2
      <3> QED BY <3>1, <3>2
    <2>3. \A i \in Rows : i # e => booking'[i] = booking[i]
      BY <1>0, <1>2
    <2> QED BY <1>0, <2>1, <2>2, <2>3 DEF Known, Statuses
  <1> QED BY <1>1, <1>2

\* The values of a request.
RequestStates == [row : Rows \cup {NoRow}, slot : Slots \cup {Free}, found : Statuses,
                  at : {"idle", "write", "cancel", "move", "done"}]

\* Every step of a request keeps the requests and the rows sound.
LEMMA RoutesKeep ==
  ASSUME BaseInv, NEW r \in Requests, Routes(r)
  PROVE  JobsGoOn /\ BaseInv'
  <1>0. TypeOK /\ AskedSound(r) /\ faults \in Nat
    BY ExecutionAssumption DEF BaseInv, TypeOK
  <1>t. /\ asked \in [Requests -> RequestStates] /\ asked[r] \in RequestStates
        /\ booking \in [Rows -> [status : Statuses, start : Slots \cup {Free}, event : BOOLEAN]]
    BY <1>0 DEF TypeOK, RequestStates
  <1>f. ASSUME job' = job, NEW next \in RequestStates, asked' = [asked EXCEPT ![r] = next],
               faults' \in 0 .. MaxFaults, faults <= faults',
               booking' \in
                 [Rows -> [status : Statuses, start : Slots \cup {Free}, event : BOOLEAN]],
               Known' = Known, \A e \in Rows : booking'[e].event = booking[e].event,
               next.at # "idle", next.row \in Known, next.at = "write" => next.found = "open",
               next.at = "move" => next.slot \in Slots,
               job[Move(r)].state # "absent" => next.at = "done" /\ next.slot \in Slots,
               UNCHANGED <<migrated, calendar, hand, answers>>
        PROVE  JobsGoOn /\ BaseInv'
    <2>1. JobsGoOn /\ SameJobs
      BY <1>f, NoTurn
    <2>2. /\ asked'[r] = next /\ \A i \in Requests : i # r => asked'[i] = asked[i]
          /\ asked' \in [Requests -> RequestStates]
      BY <1>t, <1>f
    <2>3. AskedSound(r)'
      BY <1>f, <2>2 DEF AskedSound
    <2>4. /\ \A i \in Requests : AskedSound(i)'
          /\ \A e \in Rows : RowSound(e)'
      BY <1>f, <2>2, <2>3, OneRequest
    <2>5. TypeOK'
      BY <1>0, <1>f, <2>1, <2>2 DEF TypeOK, JobsGoOn, RequestStates
    <2> QED BY <2>1, <2>4, <2>5 DEF BaseInv, JobsGoOn
  <1>1. ASSUME CancelReads(r)
        PROVE  JobsGoOn /\ BaseInv'
    <2>1. PICK e \in Known :
            /\ booking[e].status = "open"
            /\ asked' = [asked EXCEPT ![r] = [NotAsked EXCEPT
                          !.row = e, !.found = booking[e].status, !.at = "write"]]
      BY <1>1 DEF CancelReads
    <2> DEFINE next == [NotAsked EXCEPT !.row = e, !.found = booking[e].status, !.at = "write"]
    <2>2. /\ next \in RequestStates /\ next.at = "write" /\ next.row = e /\ next.found = "open"
      BY <2>1 DEF NotAsked, RequestStates, Known, Statuses
    <2>3. job[Move(r)].state = "absent"
      BY <1>0, <1>1 DEF AskedSound, CancelReads, Unasked
    <2> HIDE DEF next
    <2>4. asked' = [asked EXCEPT ![r] = next]
      BY <2>1 DEF next
    <2>5. /\ job' = job /\ faults' = faults /\ booking' = booking
          /\ UNCHANGED <<migrated, calendar, hand, answers>>
      BY <1>1 DEF CancelReads
    <2>6. Known' = Known
      BY <2>5 DEF Known
    <2>7. faults' \in 0 .. MaxFaults /\ faults <= faults'
      BY <1>0, <2>5 DEF TypeOK
    <2> QED BY <1>t, <1>f, <2>1, <2>2, <2>3, <2>4, <2>5, <2>6, <2>7
  <1>2. ASSUME asked[r].at \in {"write", "cancel", "move"}, job' = job,
               NEW at \in {"cancel", "done"}, asked[r].at # "write" => at = "done",
               asked' = [asked EXCEPT ![r].found = "absent", ![r].at = at],
               faults' \in 0 .. MaxFaults, faults <= faults',
               \/ booking' = booking
               \/ booking' = Cancelled(r),
               UNCHANGED <<migrated, calendar, hand, answers>>
        PROVE  JobsGoOn /\ BaseInv'
    <2> DEFINE next == [asked[r] EXCEPT !.found = "absent", !.at = at]
    <2>1. /\ next \in RequestStates /\ next.at = at /\ next.row = asked[r].row
          /\ next.slot = asked[r].slot
      BY <1>t, <1>2 DEF RequestStates, Statuses
    <2>2. next.row \in Known
      BY <1>0, <1>2, <2>1 DEF AskedSound
    <2>3. job[Move(r)].state = "absent"
      BY <1>0, <1>2 DEF AskedSound
    <2>4. asked' = [asked EXCEPT ![r] = next]
      BY <1>t, <1>2
    <2> HIDE DEF next
    <2>5. /\ Known' = Known /\ \A e \in Rows : booking'[e].event = booking[e].event
          /\ booking' \in
               [Rows -> [status : Statuses, start : Slots \cup {Free}, event : BOOLEAN]]
      <3>1. CASE booking' = booking
        BY <1>t, <3>1 DEF Known
      <3>2. CASE booking' = Cancelled(r)
        <4>1. PICK e \in Known : e = asked[r].row
          BY <2>1, <2>2
        <4>2. booking' = [booking EXCEPT ![e].status = "cancelled"]
          BY <3>2, <4>1 DEF Cancelled
        <4>3. "cancelled" \in Statuses \ {"absent"}
          BY DEF Statuses
        <4> QED BY <4>2, <4>3, OneBooking
      <3> QED BY <1>2, <3>1, <3>2
    <2> QED BY <1>f, <1>2, <2>1, <2>2, <2>3, <2>4, <2>5
  <1>3. ASSUME CancelWrites(r)
        PROVE  JobsGoOn /\ BaseInv'
    BY <1>0, <1>2, <1>3 DEF CancelWrites, TypeOK
  <1>4. ASSUME RequestFails(r)
        PROVE  JobsGoOn /\ BaseInv'
    <2>1. faults' \in 0 .. MaxFaults /\ faults <= faults'
      BY <1>0, <1>4, ExecutionAssumption DEF RequestFails, Fault, TypeOK
    <2> QED BY <1>2, <1>4, <2>1 DEF RequestFails
  <1>5. ASSUME Reschedule(r)
        PROVE  JobsGoOn /\ BaseInv'
    <2>1. PICK e \in Known, s \in Slots :
            /\ booking' = [booking EXCEPT ![e].status = "open", ![e].start = s]
            /\ asked' = [asked EXCEPT ![r] = [NotAsked EXCEPT
                   !.row = e, !.slot = s, !.at = IF booking[e].event THEN "move" ELSE "done"]]
      BY <1>5 DEF Reschedule
    <2> DEFINE at == IF booking[e].event THEN "move" ELSE "done"
    <2> DEFINE next == [NotAsked EXCEPT !.row = e, !.slot = s, !.at = at]
    <2>2. at \in {"move", "done"}
      OBVIOUS
    <2>3. asked' = [asked EXCEPT ![r] = next]
      BY <2>1
    <2> HIDE DEF at
    <2>4. next \in RequestStates /\ next.at = at /\ next.row = e /\ next.slot = s
      BY <2>2 DEF NotAsked, RequestStates, Known, Statuses
    <2> HIDE DEF next
    <2>5. job[Move(r)].state = "absent"
      BY <1>0, <1>5 DEF AskedSound, Reschedule, Unasked
    <2>6. /\ Known' = Known /\ \A i \in Rows : booking'[i].event = booking[i].event
          /\ booking' \in
               [Rows -> [status : Statuses, start : Slots \cup {Free}, event : BOOLEAN]]
      <3>1. "open" \in Statuses \ {"absent"}
        BY DEF Statuses
      <3> QED BY <2>1, <3>1, OneBooking
    <2>7. /\ job' = job /\ faults' = faults /\ UNCHANGED <<migrated, calendar, hand, answers>>
      BY <1>5 DEF Reschedule
    <2>8. faults' \in 0 .. MaxFaults /\ faults <= faults'
      BY <1>0, <2>7 DEF TypeOK
    <2> QED BY <1>f, <2>2, <2>3, <2>4, <2>5, <2>6, <2>7, <2>8
  <1>6. ASSUME RequestEnqueues(r)
        PROVE  JobsGoOn /\ BaseInv'
    <2>k. PICK k : k = IF asked[r].at = "move" THEN Move(r) ELSE Cancel(asked[r].row)
      OBVIOUS
    <2>0. /\ asked[r].at \in {"cancel", "move"} /\ job' = Enqueued(job, k)
          /\ asked' = [asked EXCEPT ![r].at = "done"]
          /\ UNCHANGED <<faults, migrated, calendar, booking, hand, answers>>
      BY <1>6, <2>k DEF RequestEnqueues
    <2>1. asked[r].row \in Known /\ asked[r].row \in Rows
      BY <1>0, <2>0 DEF AskedSound, Known
    <2>2. /\ k \in SyncJobs /\ k \in Jobs
          /\ (k = Move(r) /\ asked[r].at = "move") \/ k = Cancel(asked[r].row)
      BY <2>1, <2>k, Keys
    <2>3. /\ job' \in [Jobs -> JobRows(Steps)]
          /\ \A i \in Jobs : i # k \/ job[k].state # "absent" => job'[i] = job[i]
          /\ job[k].state = "absent" => job'[k] = Ready
          /\ Ready = [state |-> "ready", attempts |-> 0, at |-> "idle"]
      BY <1>0, <2>0, <2>2, Enqueuing DEF TypeOK
    <2>4. \A i \in Jobs : JobSound(i)'
      <3>1. ASSUME NEW i \in Jobs, job'[i] = job[i]
            PROVE  JobSound(i)'
        BY <3>1 DEF BaseInv, JobSound
      <3>2. ASSUME job[k].state = "absent"
            PROVE  JobSound(k)'
        BY <2>2, <2>3, <3>2, ExecutionAssumption DEF JobSound, Sound, SyncJobs
      <3> QED BY <2>3, <3>1, <3>2
    <2>5. \A b \in Bookers : job'[Book(b)] = job[Book(b)]
      BY <2>2, <2>3, Keys
    <2>6. JobsGoOn
      BY <1>0, <2>0, <2>3, <2>4, <2>5 DEF JobsGoOn, Ahead, TypeOK
    <2>7. /\ asked' \in [Requests -> RequestStates] /\ asked'[r].at = "done"
          /\ asked'[r].row = asked[r].row /\ asked'[r].slot = asked[r].slot
          /\ \A i \in Requests : i # r => asked'[i] = asked[i]
      BY <1>t, <2>0 DEF RequestStates
    <2>8. Known' = Known
      BY <2>0 DEF Known
    <2>9. \A i \in Requests : AskedSound(i)'
      <3>1. ASSUME NEW i \in Requests, i # r
            PROVE  AskedSound(i)'
        <4>1. job'[Move(i)] = job[Move(i)]
          BY <2>1, <2>2, <2>3, <3>1, Keys
        <4> QED BY <2>7, <2>8, <3>1, <4>1 DEF BaseInv, AskedSound
      <3>2. AskedSound(r)'
        <4>1. CASE asked[r].at = "move"
          BY <1>0, <2>1, <2>7, <2>8, <4>1 DEF AskedSound
        <4>2. CASE asked[r].at = "cancel"
          <5>1. job'[Move(r)] = job[Move(r)]
            BY <2>1, <2>2, <2>3, <4>2, Keys
          <5> QED BY <1>0, <2>1, <2>7, <2>8, <4>2, <5>1 DEF AskedSound
        <4> QED BY <2>0, <4>1, <4>2
      <3> QED BY <3>1, <3>2
    <2>10. \A e \in Rows : RowSound(e)'
      <3>1. ASSUME NEW e \in Rows
            PROVE  RowSound(e)'
        <4>1. e \notin Known => job'[Cancel(e)] = job[Cancel(e)]
          BY <2>1, <2>2, <2>3, Keys
        <4>2. RowSound(e) /\ e[1] \in Bookers
          BY RowsAre DEF BaseInv
        <4> QED BY <2>0, <2>5, <2>8, <4>1, <4>2 DEF RowSound
      <3> QED BY <3>1
    <2>11. TypeOK'
      BY <1>0, <2>0, <2>3, <2>7 DEF TypeOK, RequestStates
    <2> QED BY <2>4, <2>6, <2>9, <2>10, <2>11 DEF BaseInv
  <1> QED BY <1>1, <1>3, <1>4, <1>5, <1>6 DEF Routes

\* Every step of a booking job keeps them.
LEMMA BookingKeeps ==
  ASSUME BaseInv, NEW b \in Bookers, BookTurn(b),
         Looks(b) \/ Creates(b) \/ Inserts(b) \/ Answers(b)
  PROVE  JobsGoOn /\ SameJobs /\ BaseInv'
  <1>0. /\ calendar \in [Events -> Slots \cup {Free}]
        /\ booking \in [Rows -> [status : Statuses, start : Slots \cup {Free}, event : BOOLEAN]]
        /\ answers \subseteq {"confirmation", "slots", "callback"} \X Bookers
        /\ hand[b] \in Holds
    BY DEF BaseInv, TypeOK, Holds
  <1>1. JobsGoOn /\ SameJobs
    BY Keys, OneTurn DEF BookTurn
  <1>2. /\ \A r \in Requests : AskedSound(r)'
        /\ \A e \in Rows : RowSound(e)'
    <2>1. CASE booking' = booking
      BY <1>1, <2>1, RowsStay DEF BookTurn
    <2>2. CASE Inserts(b)
      BY <1>1, <2>2, InsertStores
    <2> QED BY <2>1, <2>2 DEF Looks, Creates, Answers
  <1>3. calendar' \in [Events -> Slots \cup {Free}]
    <2>1. CASE Creates(b)
      BY <1>0, <2>1 DEF Creates, Holds
    <2> QED BY <1>0, <2>1 DEF Looks, Inserts, Answers
  <1>4. booking' \in [Rows -> [status : Statuses, start : Slots \cup {Free}, event : BOOLEAN]]
    <2>1. CASE Inserts(b)
      <3>1. [status |-> "open", start |-> hand[b].slot, event |-> hand[b].event] \in
               [status : Statuses, start : Slots \cup {Free}, event : BOOLEAN]
        BY <1>0 DEF Holds, Statuses
      <3> QED BY <1>0, <2>1, <3>1 DEF Inserts
    <2> QED BY <1>0, <2>1 DEF Looks, Creates, Answers
  <1>5. answers' \subseteq {"confirmation", "slots", "callback"} \X Bookers
    BY <1>0 DEF Looks, Creates, Inserts, Answers
  <1>6. TypeOK'
    BY <1>1, <1>3, <1>4, <1>5 DEF TypeOK, BookTurn, JobsGoOn, BaseInv, Holds
  <1> QED BY <1>1, <1>2, <1>6 DEF BaseInv, JobsGoOn

\* The end of an execution keeps them.
LEMMA EndKeeps ==
  ASSUME BaseInv, NEW k \in Jobs, Ends(k)
  PROVE  JobsGoOn /\ SameJobs /\ BaseInv'
  <1>1. /\ Turn(k) /\ job[k].at # "idle" /\ job'[k].at = "idle"
        /\ job'[k].attempts = job[k].attempts
        /\ UNCHANGED <<migrated, calendar, booking, answers, asked>>
        /\ hand' \in [Bookers -> Holds]
    BY EndDoes
  <1>2. \A b \in Bookers : k = Book(b) => Ahead(b)
    BY <1>1 DEF Ahead
  <1>3. JobsGoOn /\ SameJobs
    BY <1>1, <1>2, OneTurn
  <1>4. /\ \A r \in Requests : AskedSound(r)'
        /\ \A e \in Rows : RowSound(e)'
    BY <1>1, <1>3, RowsStay
  <1>5. TypeOK'
    BY <1>1, <1>3 DEF TypeOK, JobsGoOn, BaseInv, Holds
  <1> QED BY <1>3, <1>4, <1>5 DEF BaseInv, JobsGoOn

\* The event and the slot of a synchronisation that exists.
LEMMA Targets ==
  ASSUME BaseInv, NEW k \in SyncJobs, job[k].state # "absent"
  PROVE  /\ Target(k).event \in Known /\ Target(k).event \in Rows
         /\ Target(k).slot \in Slots \cup {Free}
         /\ \A e \in Rows : k = Cancel(e) => Target(k).event = e /\ Target(k).slot = Free
         /\ \A r \in Requests : k = Move(r) =>
               /\ Target(k).event = asked[r].row /\ Target(k).slot = asked[r].slot
               /\ Target(k).slot \in Slots
  <1>1. ASSUME NEW e \in Rows, k = Cancel(e)
        PROVE  Target(k).event = e /\ Target(k).slot = Free /\ e \in Known
    BY <1>1, Keys DEF Target, BaseInv, RowSound
  <1>2. ASSUME NEW r \in Requests, k = Move(r)
        PROVE  /\ Target(k).event = asked[r].row /\ Target(k).slot = asked[r].slot
               /\ asked[r].row \in Known /\ asked[r].slot \in Slots
    BY <1>2, Keys DEF Target, BaseInv, AskedSound
  <1>3. Known \subseteq Rows
    BY DEF Known
  <1> QED BY <1>1, <1>2, <1>3, Keys

\* A synchronisation keeps them.
LEMMA SyncKeeps ==
  ASSUME BaseInv, NEW k \in SyncJobs, Synchronising(k)
  PROVE  JobsGoOn /\ SameJobs /\ BaseInv'
  <1>1. /\ Turn(k)
        /\ UNCHANGED <<migrated, booking, hand, answers, asked>>
        /\ calendar' = calendar \/ Tells(k)
    BY SyncDoes
  <1>2. JobsGoOn /\ SameJobs
    BY <1>1, Keys, OneTurn
  <1>3. /\ \A r \in Requests : AskedSound(r)'
        /\ \A e \in Rows : RowSound(e)'
    BY <1>1, <1>2, RowsStay
  <1>4. calendar' \in [Events -> Slots \cup {Free}]
    <2>1. CASE Tells(k)
      <3>1. Target(k).slot \in Slots \cup {Free}
        BY <2>1, Targets DEF Tells
      <3> QED BY <2>1, <3>1 DEF Tells, BaseInv, TypeOK
    <2> QED BY <1>1, <2>1 DEF BaseInv, TypeOK
  <1>5. TypeOK'
    BY <1>1, <1>2, <1>4 DEF TypeOK, JobsGoOn, BaseInv
  <1> QED BY <1>2, <1>3, <1>5 DEF BaseInv, JobsGoOn

\* So does the staff's note that a visit took place, ...
LEMMA CompletionKeeps ==
  ASSUME BaseInv, NEW e \in Rows, CompleteBooking(e)
  PROVE  JobsGoOn /\ SameJobs /\ BaseInv'
  <1>1. /\ booking' = [booking EXCEPT ![e].status = "completed"] /\ e \in Known
        /\ UNCHANGED <<job, faults, migrated, calendar, hand, answers, asked>>
    BY DEF CompleteBooking
  <1>2. /\ booking' \in
             [Rows -> [status : Statuses, start : Slots \cup {Free}, event : BOOLEAN]]
        /\ Known' = Known
        /\ \A i \in Rows : booking'[i].event = booking[i].event
    <2>1. "completed" \in Statuses \ {"absent"}
      BY DEF Statuses
    <2> QED BY <1>1, <2>1, OneBooking
  <1>3. JobsGoOn /\ SameJobs
    BY <1>1, NoTurn DEF BaseInv, TypeOK
  <1>4. \A r \in Requests : AskedSound(r)'
    BY <1>1, <1>2 DEF BaseInv, AskedSound
  <1>5. \A i \in Rows : RowSound(i)'
    BY <1>1, <1>2 DEF BaseInv, RowSound
  <1>6. TypeOK'
    BY <1>1, <1>2 DEF TypeOK, BaseInv
  <1> QED BY <1>3, <1>4, <1>5, <1>6 DEF BaseInv, JobsGoOn

\* ... and the owner's own event.
LEMMA OwnerKeeps ==
  ASSUME BaseInv, NEW s \in Slots, OwnerAdds(s)
  PROVE  JobsGoOn /\ SameJobs /\ BaseInv'
  <1>1. /\ calendar' = [calendar EXCEPT ![Owners] = s]
        /\ UNCHANGED <<job, faults, migrated, booking, hand, answers, asked>>
    BY DEF OwnerAdds
  <1>2. JobsGoOn /\ SameJobs
    BY <1>1, NoTurn DEF BaseInv, TypeOK
  <1>3. /\ \A r \in Requests : AskedSound(r)'
        /\ \A e \in Rows : RowSound(e)'
    BY <1>1, <1>2, RowsStay
  <1>4. TypeOK'
    BY <1>1 DEF TypeOK, BaseInv
  <1> QED BY <1>2, <1>3, <1>4 DEF BaseInv, JobsGoOn

\* It holds at first, ...
LEMMA BaseInit == ASSUME Init PROVE BaseInv
  <1>1. Absent = [state |-> "absent", attempts |-> 0, at |-> "idle"]
        /\ Ready = [state |-> "ready", attempts |-> 0, at |-> "idle"]
    BY DEF Absent, Ready
  <1>2. \A k \in Jobs : job[k] \in {Absent, Ready} /\ (k \in SyncJobs => job[k] = Absent)
    BY DEF Init, SyncJobs
  <1>3. Absent \in JobRows(Steps) /\ Ready \in JobRows(Steps)
    BY <1>1, ExecutionAssumption DEF JobRows, JobStates
  <1>4. job \in [Jobs -> JobRows(Steps)]
    BY <1>3 DEF Init
  <1>5. \A k \in Jobs : JobSound(k)
    BY <1>1, <1>2, ExecutionAssumption DEF JobSound, Sound
  <1>6. Known = {}
    BY DEF Known, Init, NoBooking
  <1>7. \A r \in Requests : AskedSound(r)
    BY <1>1, <1>2, Keys DEF AskedSound, Init, NotAsked
  <1>8. \A e \in Rows : RowSound(e)
    BY <1>1, <1>2, <1>6, Keys DEF RowSound, Init, NoBooking
  <1>9. TypeOK
    BY <1>4, ExecutionAssumption DEF TypeOK, Init, NoBooking, EmptyHand, NotAsked, Statuses
  <1> QED BY <1>5, <1>7, <1>8, <1>9 DEF BaseInv

\* ... and every step keeps it.
LEMMA BaseStep == ASSUME BaseInv, [Next]_vars PROVE BaseInv'
  <1>1. CASE UNCHANGED vars
    <2>1. UNCHANGED <<job, faults, migrated, calendar, booking, hand, answers, asked>>
      BY <1>1 DEF vars
    <2>2. TypeOK'
      BY <2>1 DEF BaseInv, TypeOK
    <2>3. Known' = Known
      BY <2>1 DEF Known
    <2>4. \A k \in Jobs : JobSound(k)'
      BY <2>1 DEF BaseInv, JobSound
    <2>5. \A r \in Requests : AskedSound(r)'
      BY <2>1, <2>3 DEF BaseInv, AskedSound
    <2>6. \A e \in Rows : RowSound(e)'
      BY <2>1, <2>3 DEF BaseInv, RowSound
    <2> QED BY <2>2, <2>4, <2>5, <2>6 DEF BaseInv
  <1>2. ASSUME NEW b \in Bookers, Booking(b) PROVE BaseInv'
    BY <1>2, BookingDoes, BookingKeeps
  <1>3. ASSUME NEW k \in SyncJobs, Synchronising(k) PROVE BaseInv'
    BY <1>3, SyncKeeps
  <1>4. ASSUME NEW k \in Jobs, Ends(k) PROVE BaseInv'
    BY <1>4, EndKeeps
  <1>5. ASSUME NEW r \in Requests, Routes(r) PROVE BaseInv'
    BY <1>5, RoutesKeep
  <1>6. ASSUME NEW e \in Rows, CompleteBooking(e) PROVE BaseInv'
    BY <1>6, CompletionKeeps
  <1>7. ASSUME NEW s \in Slots, OwnerAdds(s) PROVE BaseInv'
    BY <1>7, OwnerKeeps
  <1> QED BY <1>1, <1>2, <1>3, <1>4, <1>5, <1>6, <1>7 DEF Next

\* Types, rows of the queue, requests and rows of bookings stay sound.
THEOREM AppointmentsSound == Spec => []BaseInv
  BY BaseInit, BaseStep, PTL DEF Spec

\* Every variable keeps its type.
THEOREM AppointmentsTypes == Spec => []TypeOK
  <1>1. BaseInv => TypeOK
    BY DEF BaseInv
  <1> QED BY <1>1, AppointmentsSound, PTL

-----------------------------------------------------------------------------
(* A completion that is undone.                                            *)

\* What CompletionUndoneOnlyByRace says of a step.
UndoneByRace ==
    \A e \in Rows :
        booking[e].status = "completed" /\ booking'[e].status = "cancelled" =>
            \E r \in Requests : /\ asked[r].row = e
                                /\ asked[r].at = "write"
                                /\ asked[r].found = "open"

\* The write of a cancellation changes the row of its request only.
LEMMA CancelledRow ==
  ASSUME BaseInv, NEW r \in Requests, NEW e \in Rows, asked[r].at = "write",
         booking' = Cancelled(r), booking[e].status = "completed",
         booking'[e].status = "cancelled"
  PROVE  asked[r].row = e /\ asked[r].at = "write" /\ asked[r].found = "open"
  <1>1. asked[r].found = "open" /\ asked[r].row \in Rows
    BY DEF BaseInv, AskedSound, Known
  <1>2. asked[r].row # e => booking'[e] = booking[e]
    BY <1>1 DEF Cancelled, BaseInv, TypeOK
  <1> QED BY <1>1, <1>2

\* A visit that took place becomes cancelled only by a cancellation that read the
\* booking while it was open: cancel_booking looks once and writes later.
THEOREM CompletionStands == Spec => CompletionUndoneOnlyByRace
  <1>1. BaseInv /\ [Next]_vars => [UndoneByRace]_vars
    <2> SUFFICES ASSUME BaseInv, Next, NEW e \in Rows,
                        booking[e].status = "completed", booking'[e].status = "cancelled"
                 PROVE  \E r \in Requests :
                           asked[r].row = e /\ asked[r].at = "write" /\ asked[r].found = "open"
      BY DEF UndoneByRace
    <2>0. /\ booking \in
               [Rows -> [status : Statuses, start : Slots \cup {Free}, event : BOOLEAN]]
          /\ booking' # booking
      BY DEF BaseInv, TypeOK
    <2>1. ASSUME NEW b \in Bookers, Booking(b) PROVE FALSE
      <3>1. BookTurn(b) /\ (Looks(b) \/ Creates(b) \/ Inserts(b) \/ Answers(b))
        BY <2>1, BookingDoes
      <3>2. JobsGoOn /\ SameJobs
        BY <3>1, BookingKeeps
      <3>3. Inserts(b)
        BY <2>0, <3>1 DEF Looks, Creates, Answers
      <3>4. /\ e # Own(b) => booking'[e] = booking[e]
            /\ booking'[Own(b)] =
                 [status |-> "open", start |-> hand[b].slot, event |-> hand[b].event]
        BY <3>1, <3>2, <3>3, InsertStores
      <3>5. booking'[Own(b)].status = "open"
        BY <3>4
      <3> QED BY <3>4, <3>5
    <2>2. ASSUME NEW k \in SyncJobs, Synchronising(k) PROVE FALSE
      BY <2>0, <2>2, SyncDoes
    <2>3. ASSUME NEW k \in Jobs, Ends(k) PROVE FALSE
      BY <2>0, <2>3, EndDoes
    <2>4. ASSUME NEW r \in Requests, Routes(r)
          PROVE  asked[r].row = e /\ asked[r].at = "write" /\ asked[r].found = "open"
      <3>1. CASE CancelWrites(r)
        BY <3>1, CancelledRow DEF CancelWrites
      <3>2. CASE RequestFails(r)
        BY <2>0, <3>2, CancelledRow DEF RequestFails
      <3>3. CASE Reschedule(r)
        <4>1. PICK i \in Known, s \in Slots :
                booking' = [booking EXCEPT ![i].status = "open", ![i].start = s]
          BY <3>3 DEF Reschedule
        <4>2. "open" \in Statuses \ {"absent"}
          BY DEF Statuses
        <4>3. booking'[i].status = "open" /\ \A j \in Rows : j # i => booking'[j] = booking[j]
          BY <4>1, <4>2, OneBooking
        <4> QED BY <4>3
      <3> QED BY <2>0, <2>4, <3>1, <3>2, <3>3 DEF Routes, CancelReads, RequestEnqueues
    <2>5. ASSUME NEW i \in Rows, CompleteBooking(i) PROVE FALSE
      BY <2>0, <2>5 DEF CompleteBooking
    <2>6. ASSUME NEW s \in Slots, OwnerAdds(s) PROVE FALSE
      BY <2>0, <2>6 DEF OwnerAdds
    <2> QED BY <2>1, <2>2, <2>3, <2>4, <2>5, <2>6 DEF Next
  <1>2. Spec => [][UndoneByRace]_vars
    BY <1>1, AppointmentsSound, PTL DEF Spec
  <1> QED BY <1>2 DEF CompletionUndoneOnlyByRace, UndoneByRace

-----------------------------------------------------------------------------
(* Two appointments in one slot.                                           *)

\* No step makes a request that moved an event forget it, ...
MovesStay ==
    \A r \in Requests : job[Move(r)].state # "absent" =>
        job'[Move(r)].state # "absent" /\ asked'[r].row = asked[r].row

\* ... so what was moved was moved ever after.
LEMMA RescheduledStays ==
  ASSUME NEW e, Rescheduled(e), MovesStay
  PROVE  Rescheduled(e)'
  BY DEF Rescheduled, MovesStay

\* An event that has been created has been created ever after.
LEMMA CreatedStays ==
  ASSUME BaseInv, JobsGoOn, NEW e \in Events, Created(e),
         calendar[Owners] # Free => calendar'[Owners] # Free
  PROVE  Created(e)'
  <1>1. CASE e = Owners
    BY <1>1, RowsAre DEF Created
  <1>2. CASE e \in Rows
    <2>1. e[1] \in Bookers /\ e[2] \in Nat
      BY <1>2, RowsAre
    <2>2. job[Book(e[1])].attempts \in Nat /\ job'[Book(e[1])].attempts \in Nat
      BY <2>1, Keys DEF BaseInv, TypeOK, JobsGoOn, JobRows
    <2>3. Ahead(e[1])
      BY <2>1 DEF JobsGoOn
    <2> QED BY <1>2, <2>1, <2>2, <2>3, RowsAre DEF Created, Ahead
  <1> QED BY <1>1, <1>2, RowsAre

\* How a step changes the calendar where something was created.
CalendarStands ==
    /\ calendar[Owners] # Free => calendar'[Owners] = calendar[Owners]
    /\ \A e \in Events : calendar'[e] # Free => Created(e) \/ Created(e)'
    /\ \A e \in Events : Created(e) =>
          calendar'[e] = calendar[e] \/ calendar'[e] = Free \/ Rescheduled(e)

\* What a handler saw is still there, elsewhere unless it was moved.
LEMMA RacesKept ==
  ASSUME BaseInv, JobsGoOn, RacesInv, CalendarStands, MovesStay,
         \A b \in Bookers :
             \/ job'[Book(b)] = job[Book(b)] /\ hand'[b] = hand[b]
             \/ job'[Book(b)].at # "create"
             \/ HandSound(b)'
  PROVE  RacesInv'
  <1>1. \A e \in Events : Created(e) => Created(e)'
    BY CreatedStays DEF CalendarStands
  <1>2. \A e \in Events : calendar'[e] # Free => Created(e)'
    BY <1>1 DEF CalendarStands
  <1>3. ASSUME NEW b \in Bookers
        PROVE  HandSound(b)'
    <2>1. CASE job'[Book(b)].at # "create"
      BY <2>1 DEF HandSound
    <2>2. CASE /\ job'[Book(b)] = job[Book(b)] /\ hand'[b] = hand[b]
               /\ job[Book(b)].at = "create"
      <3>1. HandSound(b) /\ hand[b].seen \subseteq Events /\ hand[b].slot \in Slots
        BY <2>2 DEF RacesInv, HandSound, BaseInv, TypeOK
      <3>2. ASSUME NEW x \in hand[b].seen
            PROVE  Created(x)' /\ (calendar'[x] # hand[b].slot \/ Rescheduled(x)')
        <4>1. Created(x) /\ (calendar[x] # hand[b].slot \/ Rescheduled(x)) /\ x \in Events
          BY <2>2, <3>1 DEF HandSound
        <4>2. Rescheduled(x) => Rescheduled(x)'
          BY RescheduledStays
        <4> QED BY <1>1, <3>1, <4>1, <4>2, SlotsAssumption DEF CalendarStands
      <3> QED BY <2>2, <3>1, <3>2 DEF HandSound
    <2> QED BY <2>1, <2>2
  <1> QED BY <1>2, <1>3 DEF RacesInv

\* A request that has moved an event is at its end.
LEMMA RoutesMovesStay ==
  ASSUME BaseInv, NEW r \in Requests, Routes(r)
  PROVE  MovesStay
  <1>1. ASSUME NEW i \in Requests, job[Move(i)].state # "absent"
        PROVE  job'[Move(i)].state # "absent" /\ asked'[i].row = asked[i].row
    <2>1. asked[i].at = "done"
      BY <1>1 DEF BaseInv, AskedSound
    <2>2. i # r
      BY <2>1 DEF Routes, CancelReads, CancelWrites, Reschedule, RequestEnqueues,
                  RequestFails, Unasked
    <2>3. asked'[i] = asked[i]
      BY <2>2 DEF Routes, CancelReads, CancelWrites, Reschedule, RequestEnqueues,
                  RequestFails, BaseInv, TypeOK
    <2>4. job' # job => \E k : job' = Enqueued(job, k)
      BY DEF Routes, CancelReads, CancelWrites, Reschedule, RequestEnqueues, RequestFails
    <2>5. Move(i) \in Jobs /\ job \in [Jobs -> JobRows(Steps)]
      BY Keys DEF BaseInv, TypeOK
    <2>6. ASSUME NEW k, job' = Enqueued(job, k)
          PROVE  job'[Move(i)].state # "absent"
      BY <1>1, <2>5, <2>6 DEF Enqueued
    <2> QED BY <1>1, <2>3, <2>4, <2>6
  <1> QED BY <1>1 DEF MovesStay

\* An event is created where its attempt had none; another changes by a synchronisation.
LEMMA CreatesStands ==
  ASSUME BaseInv, RacesInv, NEW b \in Bookers, BookTurn(b), Creates(b)
  PROVE  /\ CalendarStands
         /\ \A e \in Events : e # Own(b) => calendar'[e] = calendar[e]
         /\ Own(b) \in Rows /\ calendar'[Own(b)] \in {Free, hand[b].slot}
  <1>1. /\ Own(b) \in Rows /\ Own(b)[1] = b /\ Own(b)[2] = job[Book(b)].attempts
        /\ job[Book(b)].attempts \in Nat
    BY Keys, BookTypes DEF BaseInv, Creates
  <1>2. PICK s \in {Free, hand[b].slot} : calendar' = [calendar EXCEPT ![Own(b)] = s]
    BY DEF Creates
  <1>3. /\ \A e \in Events : e # Own(b) => calendar'[e] = calendar[e]
        /\ calendar'[Own(b)] = s
    BY <1>1, <1>2, RowsAre DEF BaseInv, TypeOK
  <1>4. Own(b) # Owners
    BY <1>1, RowsAre
  <1>5. ~Created(Own(b))
    BY <1>1, <1>4 DEF Created, Creates
  <1>7. CalendarStands
    <2>1. calendar[Owners] # Free => calendar'[Owners] = calendar[Owners]
      BY <1>3, <1>4, RowsAre
    <2>2. ASSUME NEW e \in Events, calendar'[e] # Free
          PROVE  Created(e) \/ Created(e)'
      <3>1. CASE e = Own(b)
        <4>1. job'[Book(b)].attempts = job[Book(b)].attempts
          BY DEF BookTurn, Ahead, Creates
        <4> QED BY <1>1, <3>1, <4>1 DEF Created, Creates
      <3>2. CASE e # Own(b)
        BY <1>3, <2>2, <3>2 DEF RacesInv
      <3> QED BY <3>1, <3>2
    <2>3. \A e \in Events : Created(e) => calendar'[e] = calendar[e]
      BY <1>3, <1>5
    <2> QED BY <2>1, <2>2, <2>3 DEF CalendarStands
  <1> QED BY <1>1, <1>3, <1>7

\* A step that leaves the calendar alone.
LEMMA CalendarSame ==
  ASSUME RacesInv, calendar' = calendar
  PROVE  CalendarStands
  BY DEF RacesInv, CalendarStands

\* A request that is not touched does not forget what it moved.
LEMMA SameMovesStay ==
  ASSUME SameJobs, asked' = asked
  PROVE  MovesStay
  BY Keys DEF SameJobs, MovesStay

\* A request moves no booking job.
LEMMA RoutesKeepBooks ==
  ASSUME BaseInv, NEW r \in Requests, Routes(r)
  PROVE  \A b \in Bookers : job'[Book(b)] = job[Book(b)]
  <1>1. CASE RequestEnqueues(r)
    <2>1. PICK k : /\ job' = Enqueued(job, k)
                   /\ k = IF asked[r].at = "move" THEN Move(r) ELSE Cancel(asked[r].row)
      BY <1>1 DEF RequestEnqueues
    <2>2. asked[r].row \in Rows
      BY <1>1 DEF RequestEnqueues, BaseInv, AskedSound, Known
    <2>3. k \in SyncJobs /\ k \in Jobs
      BY <2>1, <2>2, Keys
    <2>4. \A b \in Bookers : Book(b) # k /\ Book(b) \in Jobs
      BY <2>3, Keys
    <2> QED BY <2>1, <2>3, <2>4 DEF Enqueued, BaseInv, TypeOK
  <1>2. CASE job' = job
    BY <1>2
  <1> QED BY <1>1, <1>2 DEF Routes, CancelReads, CancelWrites, Reschedule, RequestFails

\* Every step keeps what the handlers know of the calendar.
LEMMA RacesStep ==
  ASSUME BaseInv, RacesInv, [Next]_vars
  PROVE  RacesInv'
  <1>1. CASE UNCHANGED vars
    <2>1. UNCHANGED <<job, calendar, hand, asked>>
      BY <1>1 DEF vars
    <2> QED BY <2>1 DEF RacesInv, Created, HandSound, Rescheduled
  <1>2. ASSUME NEW b \in Bookers, Booking(b) PROVE RacesInv'
    <2>1. BookTurn(b) /\ (Looks(b) \/ Creates(b) \/ Inserts(b) \/ Answers(b))
      BY <1>2, BookingDoes
    <2>2. JobsGoOn /\ SameJobs
      BY <2>1, BookingKeeps
    <2>3. MovesStay
      BY <2>1, <2>2, SameMovesStay DEF BookTurn
    <2>4. CalendarStands
      BY <2>1, CreatesStands, CalendarSame DEF Looks, Inserts, Answers
    <2>5. \A c \in Bookers : c # b => job'[Book(c)] = job[Book(c)] /\ hand'[c] = hand[c]
      BY <2>1, Keys DEF BookTurn, Turn, OnlyOf, BaseInv, TypeOK
    <2>6. ASSUME job'[Book(b)].at = "create"
          PROVE  HandSound(b)'
      <3>1. Looks(b)
        BY <2>1, <2>6 DEF Creates, Inserts, Answers
      <3>2. /\ hand'[b].slot \in Slots /\ ~hand'[b].event /\ hand'[b].seen = Kept
            /\ \A e \in Kept : calendar[e] # hand'[b].slot
            /\ calendar' = calendar
        BY <2>6, <3>1 DEF Looks
      <3>3. ASSUME NEW x \in Kept
            PROVE  Created(x)' /\ calendar'[x] # hand'[b].slot
        <4>1. x \in Events /\ Created(x)
          BY DEF Kept, RacesInv
        <4>2. Created(x)'
          BY <2>2, <3>2, <4>1, CreatedStays
        <4> QED BY <3>2, <4>2
      <3> QED BY <3>2, <3>3 DEF HandSound
    <2> QED BY <2>2, <2>3, <2>4, <2>5, <2>6, RacesKept
  <1>3. ASSUME NEW k \in SyncJobs, Synchronising(k) PROVE RacesInv'
    <2>1. /\ Turn(k) /\ UNCHANGED <<migrated, booking, hand, answers, asked>>
          /\ calendar' = calendar \/ Tells(k)
      BY <1>3, SyncDoes
    <2>2. JobsGoOn /\ SameJobs
      BY <1>3, SyncKeeps
    <2>3. MovesStay
      BY <2>1, <2>2, SameMovesStay
    <2>4. CalendarStands
      <3>1. CASE calendar' = calendar
        BY <3>1, CalendarSame
      <3>2. ASSUME Tells(k), calendar' # calendar
            PROVE  CalendarStands
        <4> DEFINE x == Target(k).event
        <4>1. job[k].state # "absent"
          BY <3>2 DEF Tells
        <4>2. x \in Rows /\ x \in Events /\ x # Owners
          BY <4>1, Targets, RowsAre
        <4>3. calendar[x] # Free /\ calendar' = [calendar EXCEPT ![x] = Target(k).slot]
          BY <3>2 DEF Tells
        <4> HIDE DEF x
        <4>4. /\ \A e \in Events : e # x => calendar'[e] = calendar[e]
              /\ calendar'[x] = Target(k).slot
          BY <4>2, <4>3 DEF BaseInv, TypeOK
        <4>5. Target(k).slot = Free \/ Rescheduled(x)
          <5>1. ASSUME NEW e \in Rows, k = Cancel(e) PROVE Target(k).slot = Free
            BY <4>1, <5>1, Targets
          <5>2. ASSUME NEW r \in Requests, k = Move(r) PROVE Rescheduled(x)
            BY <4>1, <5>2, Targets DEF Rescheduled, x
          <5> QED BY <5>1, <5>2, Keys
        <4> QED BY <4>2, <4>3, <4>4, <4>5, RowsAre DEF CalendarStands, RacesInv
      <3> QED BY <2>1, <3>1, <3>2
    <2>5. \A c \in Bookers : job'[Book(c)] = job[Book(c)] /\ hand'[c] = hand[c]
      BY <2>1, Keys DEF Turn, OnlyOf, BaseInv, TypeOK
    <2> QED BY <2>2, <2>3, <2>4, <2>5, RacesKept
  <1>4. ASSUME NEW k \in Jobs, Ends(k) PROVE RacesInv'
    <2>1. /\ Turn(k) /\ job'[k].at = "idle" /\ calendar' = calendar /\ asked' = asked
          /\ \A c \in Bookers : Book(c) # k => hand'[c] = hand[c]
      BY <1>4, EndDoes
    <2>2. JobsGoOn /\ SameJobs
      BY <1>4, EndKeeps
    <2>3. MovesStay /\ CalendarStands
      BY <2>1, <2>2, SameMovesStay, CalendarSame
    <2>4. \A c \in Bookers : Book(c) # k => job'[Book(c)] = job[Book(c)] /\ hand'[c] = hand[c]
      BY <2>1, Keys DEF Turn, OnlyOf, BaseInv, TypeOK
    <2> QED BY <2>1, <2>2, <2>3, <2>4, RacesKept
  <1>5. ASSUME NEW r \in Requests, Routes(r) PROVE RacesInv'
    <2>1. JobsGoOn /\ MovesStay
      BY <1>5, RoutesKeep, RoutesMovesStay
    <2>2. calendar' = calendar /\ hand' = hand
      BY <1>5 DEF Routes, CancelReads, CancelWrites, Reschedule, RequestEnqueues, RequestFails
    <2>3. \A c \in Bookers : job'[Book(c)] = job[Book(c)]
      BY <1>5, RoutesKeepBooks
    <2> QED BY <2>1, <2>2, <2>3, CalendarSame, RacesKept
  <1>6. ASSUME NEW e \in Rows, CompleteBooking(e) PROVE RacesInv'
    <2>1. UNCHANGED <<job, calendar, hand, asked>>
      BY <1>6 DEF CompleteBooking
    <2> QED BY <2>1 DEF RacesInv, Created, HandSound, Rescheduled
  <1>7. ASSUME NEW s \in Slots, OwnerAdds(s) PROVE RacesInv'
    <2>1. /\ calendar[Owners] = Free /\ calendar' = [calendar EXCEPT ![Owners] = s]
          /\ UNCHANGED <<job, hand, asked>>
      BY <1>7 DEF OwnerAdds
    <2>2. JobsGoOn /\ SameJobs
      BY <1>7, OwnerKeeps
    <2>3. /\ \A e \in Events : e # Owners => calendar'[e] = calendar[e]
          /\ calendar'[Owners] = s
      BY <2>1, RowsAre DEF BaseInv, TypeOK
    <2>4. CalendarStands
      BY <2>1, <2>3, RowsAre DEF CalendarStands, RacesInv, Created
    <2> QED BY <2>1, <2>2, <2>4, SameMovesStay, RacesKept
  <1> QED BY <1>1, <1>2, <1>3, <1>4, <1>5, <1>6, <1>7 DEF Next

\* Nobody has seen anything at first.
LEMMA RacesInit == ASSUME Init PROVE RacesInv
  <1>1. \A b \in Bookers : job[Book(b)].at # "create"
    BY Keys DEF Init, Ready, Absent
  <1> QED BY <1>1 DEF Init, RacesInv, HandSound

\* What DoubleBookingNeedsRace says of a step.
SlotTakenByRace ==
    \A e \in Rows : \A other \in Events \ {e} :
        /\ calendar[e] = Free
        /\ calendar'[e] # Free
        /\ calendar[other] = calendar'[e]
        => other \notin hand[e[1]].seen \/ Rescheduled(other)

\* An event enters a slot that holds another only if that one came, or was moved, after
\* the handler had looked: booking_worker asks the calendar and creates the event in
\* two calls.
THEOREM DoubleBookings == Spec => DoubleBookingNeedsRace
  <1>1. BaseInv /\ RacesInv /\ [Next]_vars => [SlotTakenByRace]_vars
    <2> SUFFICES ASSUME BaseInv, RacesInv, Next, NEW e \in Rows, NEW other \in Events \ {e},
                        calendar[e] = Free, calendar'[e] # Free,
                        calendar[other] = calendar'[e], other \in hand[e[1]].seen
                 PROVE  Rescheduled(other)
      BY DEF SlotTakenByRace
    <2>0. e \in Events /\ e # Owners /\ calendar' # calendar
      BY RowsAre
    <2>1. ASSUME NEW b \in Bookers, Booking(b) PROVE Rescheduled(other)
      <3>1. BookTurn(b) /\ Creates(b)
        BY <2>0, <2>1, BookingDoes DEF Looks, Inserts, Answers
      <3>2. e = Own(b) /\ calendar'[e] = hand[b].slot
        BY <2>0, <3>1, CreatesStands
      <3>3. e[1] = b /\ HandSound(b)
        BY <3>2 DEF Own, RacesInv
      <3> QED BY <3>1, <3>2, <3>3 DEF HandSound, Creates
    <2>2. ASSUME NEW k \in SyncJobs, Synchronising(k) PROVE FALSE
      <3>1. Tells(k)
        BY <2>0, <2>2, SyncDoes
      <3>2. Target(k).event \in Events /\ Target(k).slot \in Slots \cup {Free}
        BY <3>1, Targets, RowsAre DEF Tells
      <3> QED BY <2>0, <3>1, <3>2 DEF Tells, BaseInv, TypeOK
    <2>3. ASSUME NEW k \in Jobs, Ends(k) PROVE FALSE
      BY <2>0, <2>3, EndDoes
    <2>4. ASSUME NEW r \in Requests, Routes(r) PROVE FALSE
      BY <2>0, <2>4 DEF Routes, CancelReads, CancelWrites, Reschedule, RequestEnqueues,
                        RequestFails
    <2>5. ASSUME NEW i \in Rows, CompleteBooking(i) PROVE FALSE
      BY <2>0, <2>5 DEF CompleteBooking
    <2>6. ASSUME NEW s \in Slots, OwnerAdds(s) PROVE FALSE
      BY <2>0, <2>6, RowsAre DEF OwnerAdds, BaseInv, TypeOK
    <2> QED BY <2>1, <2>2, <2>3, <2>4, <2>5, <2>6 DEF Next
  <1>2. Spec => []RacesInv
    BY RacesInit, RacesStep, AppointmentsSound, PTL DEF Spec
  <1>3. Spec => [][SlotTakenByRace]_vars
    BY <1>1, <1>2, AppointmentsSound, PTL DEF Spec
  <1> QED BY <1>3 DEF DoubleBookingNeedsRace, SlotTakenByRace

-----------------------------------------------------------------------------
(* Events without a row.                                                   *)

\* A request changes no event's id.
LEMMA RoutesKeepIds ==
  ASSUME BaseInv, NEW r \in Requests, Routes(r)
  PROVE  /\ \A e \in Rows : booking'[e].event = booking[e].event
         /\ \A e \in Rows : asked[r].at # "idle" /\ e # asked[r].row => booking'[e] = booking[e]
  <1>1. CASE booking' = booking
    BY <1>1
  <1>2. ASSUME asked[r].at = "write", booking' = Cancelled(r)
        PROVE  /\ \A e \in Rows : booking'[e].event = booking[e].event
               /\ \A e \in Rows : e # asked[r].row => booking'[e] = booking[e]
    <2>1. PICK i \in Known : i = asked[r].row
      BY <1>2 DEF BaseInv, AskedSound
    <2>2. booking' = [booking EXCEPT ![i].status = "cancelled"]
      BY <1>2, <2>1 DEF Cancelled
    <2>3. "cancelled" \in Statuses \ {"absent"}
      BY DEF Statuses
    <2> QED BY <2>1, <2>2, <2>3, OneBooking
  <1>3. ASSUME Reschedule(r)
        PROVE  asked[r].at = "idle" /\ \A e \in Rows : booking'[e].event = booking[e].event
    <2>1. PICK i \in Known, s \in Slots :
            booking' = [booking EXCEPT ![i].status = "open", ![i].start = s]
      BY <1>3 DEF Reschedule
    <2>2. "open" \in Statuses \ {"absent"}
      BY DEF Statuses
    <2>3. \A e \in Rows : booking'[e].event = booking[e].event
      BY <2>1, <2>2, OneBooking
    <2> QED BY <1>3, <2>3 DEF Reschedule, Unasked
  <1> QED BY <1>1, <1>2, <1>3
          DEF Routes, CancelReads, CancelWrites, RequestEnqueues, RequestFails

\* A booking job leaves an event without a row only where it fails.
LEMMA BookingLeaves ==
  ASSUME BaseInv, NEW b \in Bookers, BookTurn(b), migrated,
         Looks(b) \/ Creates(b) \/ Inserts(b) \/ Answers(b), RacesInv
  PROVE  \/ Potential' \subseteq Potential
         \/ faults' = faults + 1 /\ Potential' \subseteq Potential \cup {Own(b)}
  <1>1. \A c \in Bookers : c # b => job'[Book(c)] = job[Book(c)] /\ hand'[c] = hand[c]
    BY Keys DEF BookTurn, Turn, OnlyOf, BaseInv, TypeOK
  <1>2. JobSound(Book(b))
    BY Keys DEF BaseInv
  <1>3. \A e \in Rows : e # Own(b) => calendar'[e] = calendar[e]
    BY CreatesStands, RowsAre DEF Looks, Inserts, Answers
  <1>4. \A e \in Rows : e # Own(b) => booking'[e] = booking[e]
    BY BookingKeeps, InsertStores DEF Looks, Creates, Answers
  <1>5. ASSUME NEW e \in Potential', e \notin Potential, e # Own(b)
        PROVE  FALSE
    <2>1. e \in Rows /\ calendar[e] # Free /\ ~booking[e].event
      BY <1>3, <1>4, <1>5 DEF Potential
    <2>2. CASE e[1] = b
      BY <1>5, <2>1, <2>2 DEF Potential
    <2>3. CASE e[1] # b
      <3>1. e[1] \in Bookers
        BY <2>1, RowsAre
      <3>2. job'[Book(e[1])] = job[Book(e[1])] /\ hand'[e[1]] = hand[e[1]]
        BY <1>1, <2>3, <3>1
      <3> QED BY <1>5, <2>1, <3>2 DEF Potential, Own
    <2> QED BY <2>2, <2>3
  <1>6. ASSUME Own(b) \in Rows, Own(b)[1] = b, Own(b) \notin Potential,
               job[Book(b)].at # "idle", NEW e \in Potential', e = Own(b)
        PROVE  faults' = faults + 1
    <2>1. job'[Book(b)].attempts = job[Book(b)].attempts
      BY <1>6 DEF BookTurn, Ahead
    <2>2. calendar'[e] # Free /\ ~booking'[e].event /\ e \in Rows /\ e[1] = b
      BY <1>6 DEF Potential
    <2>3. CASE Looks(b)
      <3>1. job[Book(b)].at # "insert"
        BY <2>3 DEF Looks
      <3> QED BY <1>6, <2>2, <2>3, <3>1 DEF Looks, Potential
    <2>4. CASE Creates(b)
      <3>1. ASSUME job'[Book(b)].at = "insert", hand'[b].event
            PROVE  FALSE
        BY <1>6, <2>1, <2>2, <3>1 DEF Potential, Own
      <3> QED BY <2>4, <3>1 DEF Creates
    <2>5. CASE Inserts(b)
      <3>0. /\ Own(b) \notin Known
            /\ booking'[Own(b)] =
                 [status |-> "open", start |-> hand[b].slot, event |-> hand[b].event]
        BY <2>5, BookingKeeps, InsertStores
      <3>1. Own(b) \notin Known /\ booking'[Own(b)].event = hand[b].event
        BY <3>0
      <3>2. ~booking[e].event /\ ~hand[b].event
        BY <1>6, <2>2, <3>1 DEF BaseInv, RowSound
      <3> QED BY <1>6, <2>2, <2>5, <3>2 DEF Inserts, Potential
    <2>6. CASE Answers(b)
      BY <1>6, <2>2, <2>6 DEF Answers, Potential
    <2> QED BY <2>3, <2>4, <2>5, <2>6
  <1>7. CASE job[Book(b)].at # "idle"
    <2>1. Own(b) \in Rows /\ Own(b)[1] = b
      BY <1>2, <1>7, BookTypes DEF BaseInv
    <2>2. CASE Own(b) \in Potential
      BY <1>5, <2>2
    <2>3. CASE Own(b) \notin Potential
      BY <1>5, <1>6, <1>7, <2>1, <2>3
    <2> QED BY <2>2, <2>3
  <1>8. CASE job[Book(b)].at = "idle"
    <2>1. Looks(b)
      BY <1>8 DEF Creates, Inserts, Answers
    <2>2. ASSUME NEW e \in Potential', e = Own(b)
          PROVE  e \in Potential
      <3>1. e \in Rows /\ calendar[e] # Free /\ ~booking[e].event
        BY <2>1, <2>2 DEF Potential, Looks
      <3> QED BY <1>8, <2>2, <3>1 DEF Potential, Own
    <2> QED BY <1>5, <2>2
  <1> QED BY <1>7, <1>8

\* Every step keeps the count of events without a row.
LEMMA OrphansStep ==
  ASSUME BaseInv, RacesInv, OrphansInv, [Next]_vars
  PROVE  OrphansInv'
  <1> SUFFICES ASSUME migrated'
               PROVE  IsFiniteSet(Potential') /\ Cardinality(Potential') <= faults'
    BY DEF OrphansInv
  <1>0. faults \in Nat /\ faults \in 0 .. MaxFaults
    BY ExecutionAssumption DEF BaseInv, TypeOK
  <1>a. ASSUME migrated, faults' \in 0 .. MaxFaults, faults <= faults',
               \/ Potential' \subseteq Potential
               \/ faults' = faults + 1 /\ \E x : Potential' \subseteq Potential \cup {x}
        PROVE  IsFiniteSet(Potential') /\ Cardinality(Potential') <= faults'
    <2>1. IsFiniteSet(Potential) /\ Cardinality(Potential) <= faults /\ faults' \in Nat
      BY <1>a, ExecutionAssumption DEF OrphansInv
    <2> QED BY <1>0, <1>a, <2>1, FaultsCount
  <1>b. ASSUME UNCHANGED <<migrated, calendar, hand>>, faults' \in 0 .. MaxFaults,
               faults <= faults',
               \A b \in Bookers : job'[Book(b)] = job[Book(b)],
               \A e \in Rows : booking'[e].event = booking[e].event
        PROVE  IsFiniteSet(Potential') /\ Cardinality(Potential') <= faults'
    <2>1. Potential' = Potential
      BY <1>b, RowsAre DEF Potential, Own
    <2> QED BY <1>a, <1>b, <2>1
  <1>1. CASE UNCHANGED vars
    <2>1. UNCHANGED <<job, faults, migrated, calendar, booking, hand>>
      BY <1>1 DEF vars
    <2>2. faults' \in 0 .. MaxFaults /\ faults <= faults'
      BY <1>0, <2>1
    <2> QED BY <1>b, <2>1, <2>2
  <1>2. ASSUME NEW b \in Bookers, Booking(b)
        PROVE  IsFiniteSet(Potential') /\ Cardinality(Potential') <= faults'
    <2>1. BookTurn(b) /\ (Looks(b) \/ Creates(b) \/ Inserts(b) \/ Answers(b))
      BY <1>2, BookingDoes
    <2>2. migrated /\ faults' \in 0 .. MaxFaults /\ faults <= faults'
      BY <2>1 DEF BookTurn, Turn
    <2> QED BY <1>a, <2>1, <2>2, BookingLeaves
  <1>3. ASSUME NEW k \in SyncJobs, Synchronising(k)
        PROVE  IsFiniteSet(Potential') /\ Cardinality(Potential') <= faults'
    <2>1. /\ Turn(k) /\ UNCHANGED <<migrated, booking, hand, answers, asked>>
          /\ calendar' = calendar \/ Tells(k)
      BY <1>3, SyncDoes
    <2>2. \A c \in Bookers : job'[Book(c)] = job[Book(c)]
      BY <2>1, Keys DEF Turn, OnlyOf, BaseInv, TypeOK
    <2>3. \A e \in Rows : calendar'[e] # Free => calendar[e] # Free
      <3>1. CASE Tells(k)
        <4>1. Target(k).event \in Events
          BY <3>1, Targets, RowsAre DEF Tells
        <4> QED BY <3>1, <4>1, RowsAre DEF Tells, BaseInv, TypeOK
      <3> QED BY <2>1, <3>1
    <2>4. Potential' \subseteq Potential
      BY <2>1, <2>2, <2>3, RowsAre DEF Potential, Own
    <2>5. migrated /\ faults' \in 0 .. MaxFaults /\ faults <= faults'
      BY <2>1 DEF Turn
    <2> QED BY <1>a, <2>4, <2>5
  <1>4. ASSUME NEW k \in Jobs, Ends(k)
        PROVE  IsFiniteSet(Potential') /\ Cardinality(Potential') <= faults'
    <2>1. /\ Turn(k) /\ job'[k].at = "idle" /\ job'[k].attempts = job[k].attempts
          /\ UNCHANGED <<migrated, calendar, booking>>
          /\ \A c \in Bookers : Book(c) # k => hand'[c] = hand[c]
          /\ \/ faults' = faults + 1
             \/ faults' = faults /\ job[k].at = "report"
      BY <1>4, EndDoes
    <2>2. \A c \in Bookers : Book(c) # k => job'[Book(c)] = job[Book(c)]
      BY <2>1, Keys DEF Turn, OnlyOf, BaseInv, TypeOK
    <2>3. ASSUME NEW e \in Potential', e \notin Potential
          PROVE  faults' = faults + 1 /\ \E b \in Bookers : k = Book(b) /\ e = Own(b)
      <3>1. e \in Rows /\ calendar[e] # Free /\ ~booking[e].event /\ e[1] \in Bookers
        BY <2>1, <2>3, RowsAre DEF Potential
      <3>2. job[Book(e[1])].at = "insert" /\ e = Own(e[1]) /\ hand[e[1]].event
        BY <2>3, <3>1 DEF Potential
      <3>3. CASE Book(e[1]) # k
        BY <2>2, <2>1, <2>3, <3>1, <3>2, <3>3 DEF Potential, Own
      <3>4. CASE Book(e[1]) = k
        BY <2>1, <3>1, <3>2, <3>4
      <3> QED BY <3>3, <3>4
    <2>4. \/ Potential' \subseteq Potential
          \/ faults' = faults + 1 /\ \E x : Potential' \subseteq Potential \cup {x}
      <3>1. CASE Potential' \subseteq Potential
        BY <3>1
      <3>2. ASSUME NEW e \in Potential', e \notin Potential
            PROVE  faults' = faults + 1 /\ Potential' \subseteq Potential \cup {e}
        <4>1. PICK b \in Bookers : k = Book(b) /\ e = Own(b) /\ faults' = faults + 1
          BY <2>3, <3>2
        <4>2. \A i \in Potential' \ Potential : i = e
          BY <2>3, <4>1, Keys
        <4> QED BY <4>1, <4>2
      <3> QED BY <3>1, <3>2
    <2>5. migrated /\ faults' \in 0 .. MaxFaults /\ faults <= faults'
      BY <2>1 DEF Turn
    <2> QED BY <1>a, <2>4, <2>5
  <1>5. ASSUME NEW r \in Requests, Routes(r)
        PROVE  IsFiniteSet(Potential') /\ Cardinality(Potential') <= faults'
    <2>1. UNCHANGED <<migrated, calendar, hand>>
      BY <1>5 DEF Routes, CancelReads, CancelWrites, Reschedule, RequestEnqueues, RequestFails
    <2>2. faults' \in 0 .. MaxFaults /\ faults <= faults'
      BY <1>5, RoutesKeep DEF JobsGoOn
    <2> QED BY <1>5, <1>b, <2>1, <2>2, RoutesKeepBooks, RoutesKeepIds
  <1>6. ASSUME NEW e \in Rows, CompleteBooking(e)
        PROVE  IsFiniteSet(Potential') /\ Cardinality(Potential') <= faults'
    <2>1. /\ UNCHANGED <<job, faults, migrated, calendar, hand>> /\ e \in Known
          /\ booking' = [booking EXCEPT ![e].status = "completed"]
      BY <1>6 DEF CompleteBooking
    <2>2. "completed" \in Statuses \ {"absent"}
      BY DEF Statuses
    <2>3. \A i \in Rows : booking'[i].event = booking[i].event
      BY <2>1, <2>2, OneBooking
    <2>4. faults' \in 0 .. MaxFaults /\ faults <= faults'
      BY <1>0, <2>1
    <2> QED BY <1>b, <2>1, <2>3, <2>4
  <1>7. ASSUME NEW s \in Slots, OwnerAdds(s)
        PROVE  IsFiniteSet(Potential') /\ Cardinality(Potential') <= faults'
    <2>1. /\ UNCHANGED <<job, faults, migrated, booking, hand>>
          /\ calendar' = [calendar EXCEPT ![Owners] = s]
      BY <1>7 DEF OwnerAdds
    <2>2. \A e \in Rows : calendar'[e] = calendar[e]
      BY <2>1, RowsAre DEF BaseInv, TypeOK
    <2>3. Potential' = Potential
      BY <2>1, <2>2 DEF Potential, Own
    <2> QED BY <1>0, <1>a, <2>1, <2>3 DEF BaseInv, TypeOK
  <1> QED BY <1>1, <1>2, <1>3, <1>4, <1>5, <1>6, <1>7 DEF Next

\* There are none at first.
LEMMA OrphansInit == ASSUME Init PROVE OrphansInv
  <1>1. Potential = {}
    BY RowsAre DEF Init, Potential
  <1> QED BY <1>1, FS_EmptySet DEF Init, OrphansInv

\* Each event without a row cost a fault of its own: a retry does not add a second.
THEOREM OrphansCostFaults == Spec => []OrphanNeedsFault
  <1>1. BaseInv /\ OrphansInv => OrphanNeedsFault
    <2> SUFFICES ASSUME BaseInv, OrphansInv, migrated
                 PROVE  Cardinality(Orphans) <= faults
      BY DEF OrphanNeedsFault
    <2>1. Orphans \subseteq Potential
      BY DEF Orphans, Potential
    <2>2. IsFiniteSet(Potential) /\ Cardinality(Potential) <= faults /\ faults \in Nat
      BY ExecutionAssumption DEF OrphansInv, BaseInv, TypeOK
    <2>3. Cardinality(Orphans) <= Cardinality(Potential) /\ IsFiniteSet(Orphans)
      BY <2>1, <2>2, FS_Subset
    <2> QED BY <2>2, <2>3, FS_CardinalityType
  <1>2. Spec => []RacesInv
    BY RacesInit, RacesStep, AppointmentsSound, PTL DEF Spec
  <1>3. Spec => []OrphansInv
    BY <1>2, OrphansInit, OrphansStep, AppointmentsSound, PTL DEF Spec
  <1> QED BY <1>1, <1>3, AppointmentsSound, PTL

-----------------------------------------------------------------------------
(* The answers.                                                            *)

\* A customer gets one of three texts at most, each once.
LEMMA TextsFinite ==
  ASSUME TypeOK, NEW b \in Bookers
  PROVE  IsFiniteSet(Texts(b)) /\ Cardinality(Texts(b)) \in Nat
  <1>1. Texts(b) \subseteq
          {<<"confirmation", b>>} \cup ({<<"slots", b>>} \cup {<<"callback", b>>})
    BY DEF TypeOK, Texts
  <1>2. IsFiniteSet({<<"confirmation", b>>} \cup ({<<"slots", b>>} \cup {<<"callback", b>>}))
    BY FS_Singleton, FS_Union
  <1> QED BY <1>1, <1>2, FS_Subset, FS_CardinalityType

\* A customer who is answered is so ever after, unless that costs a fault.
AnsweredStays(b) ==
    /\ Answered(b)' => Answered(b)
    /\ Answered(b) => Answered(b)' \/ faults' = faults + 1

\* The count of a customer's texts where none was sent.
LEMMA NoAnswer ==
  ASSUME TypeOK, NEW b \in Bookers, AnswersSound(b), Texts(b)' = Texts(b),
         faults' \in Nat, faults <= faults',
         AnsweredStays(b)
  PROVE  AnswersSound(b)'
  <1>1. PICK n \in Nat : n = Cardinality(Texts(b))
    BY TextsFinite
  <1>2. faults \in Nat
    BY ExecutionAssumption DEF TypeOK
  <1>3. Cardinality(Texts(b))' = n
    BY <1>1
  <1>4. n <= 1 + faults /\ n \in Nat
    BY <1>1 DEF AnswersSound
  <1>a. ASSUME ~Answered(b) PROVE n <= faults
    BY <1>1, <1>a DEF AnswersSound
  <1>b. ASSUME Answered(b) PROVE n >= 1
    BY <1>1, <1>b DEF AnswersSound
  <1>5. n <= 1 + faults'
    <2>1. PICK f \in Nat : f = faults
      BY <1>2
    <2>2. PICK g \in Nat : g = faults'
      OBVIOUS
    <2>3. n <= 1 + f /\ f <= g
      BY <1>4, <2>1, <2>2
    <2>4. n <= 1 + g
      BY <2>3
    <2> QED BY <2>2, <2>4
  <1>6. ASSUME ~Answered(b)' PROVE n <= faults'
    <2>1. CASE Answered(b)
      <3>1. faults' = faults + 1
        BY <1>6, <2>1 DEF AnsweredStays
      <3> QED BY <1>2, <1>4, <3>1 DEF Texts
    <2>2. CASE ~Answered(b)
      <3>1. n <= faults
        BY <1>a, <2>2
      <3> QED BY <1>2, <1>4, <3>1 DEF Texts
    <2> QED BY <2>1, <2>2
  <1>7. ASSUME Answered(b)' PROVE n >= 1
    BY <1>b, <1>7 DEF AnsweredStays
  <1> QED BY <1>3, <1>5, <1>6, <1>7 DEF AnswersSound

\* Every step keeps the counts.
LEMMA AnswersStep ==
  ASSUME BaseInv, AnswersInv, [Next]_vars
  PROVE  AnswersInv'
  <1>0. faults \in Nat /\ TypeOK /\ \A b \in Bookers : AnswersSound(b)
    BY ExecutionAssumption DEF BaseInv, TypeOK, AnswersInv
  <1>a. ASSUME answers' = answers, faults' \in 0 .. MaxFaults, faults <= faults',
               \A b \in Bookers : AnsweredStays(b)
        PROVE  AnswersInv'
    <2>1. faults' \in Nat
      BY <1>a, ExecutionAssumption
    <2>2. \A b \in Bookers : Texts(b)' = Texts(b)
      BY <1>a DEF Texts
    <2> QED BY <1>0, <1>a, <2>1, <2>2, NoAnswer DEF AnswersInv
  <1>b. ASSUME answers' = answers, faults' \in 0 .. MaxFaults, faults <= faults',
               \A b \in Bookers : job'[Book(b)] = job[Book(b)]
        PROVE  AnswersInv'
    <2>1. \A b \in Bookers : AnsweredStays(b)
      BY <1>b DEF Answered, AnsweredStays
    <2> QED BY <1>a, <1>b, <2>1
  <1>1. CASE UNCHANGED vars
    <2>1. UNCHANGED <<job, faults, answers>>
      BY <1>1 DEF vars
    <2>2. faults' \in 0 .. MaxFaults /\ faults <= faults'
      BY <1>0, <2>1 DEF TypeOK
    <2> QED BY <1>b, <2>1, <2>2
  <1>2. ASSUME NEW b \in Bookers, Booking(b) PROVE AnswersInv'
    <2>1. BookTurn(b) /\ (Looks(b) \/ Creates(b) \/ Inserts(b) \/ Answers(b))
      BY <1>2, BookingDoes
    <2>2. /\ \A c \in Bookers : c # b => job'[Book(c)] = job[Book(c)]
          /\ faults' \in 0 .. MaxFaults /\ faults <= faults'
      BY <2>1, Keys DEF BookTurn, Turn, OnlyOf, BaseInv, TypeOK
    <2>3. faults' \in Nat
      BY <2>2, ExecutionAssumption
    <2>4. job[Book(b)].at \in {"create", "insert", "confirm", "offer", "callback"} =>
          ~Answered(b)
      BY Keys DEF Answered, BaseInv, JobSound, Sound
    <2>5. ASSUME NEW c \in Bookers, c # b
          PROVE  AnswersSound(c)'
      <3>1. Texts(c)' = Texts(c)
        BY <2>1, <2>5 DEF Texts, Looks, Creates, Inserts, Answers
      <3>2. AnsweredStays(c)
        BY <2>2, <2>5 DEF Answered, AnsweredStays
      <3> QED BY <1>0, <2>2, <2>3, <3>2, <3>1, NoAnswer
    <2>6. CASE Looks(b) \/ Creates(b) \/ Inserts(b)
      <3>1. answers' = answers /\ ~Answered(b) /\ ~Answered(b)'
        BY <2>4, <2>6 DEF Looks, Creates, Inserts
      <3>2. Texts(b)' = Texts(b)
        BY <3>1 DEF Texts
      <3>3. AnswersSound(b)'
        BY <1>0, <2>2, <2>3, <3>1, <3>2, NoAnswer DEF AnsweredStays
      <3> QED BY <2>5, <3>3 DEF AnswersInv
    <2>7. CASE Answers(b)
      <3>1. PICK text \in {"confirmation", "slots", "callback"} :
              answers' = answers \cup {<<text, b>>}
        BY <2>7 DEF Answers
      <3>2. Texts(b)' = Texts(b) \cup {<<text, b>>}
        BY <3>1 DEF Texts
      <3>3. ~Answered(b) /\ (Answered(b)' \/ faults' = faults + 1)
        BY <2>4, <2>7 DEF Answers
      <3>4. IsFiniteSet(Texts(b)) /\ Cardinality(Texts(b)) \in Nat
        BY <1>0, TextsFinite
      <3> DEFINE n == Cardinality(Texts(b))
      <3> DEFINE T == Texts(b) \cup {<<text, b>>}
      <3>5. IsFiniteSet(T) /\ Cardinality(T) = IF <<text, b>> \in Texts(b) THEN n ELSE n + 1
        BY <3>4, FS_AddElement
      <3>6. Cardinality({<<text, b>>}) = 1 /\ {<<text, b>>} \subseteq T
        BY FS_Singleton
      <3>7. Cardinality({<<text, b>>}) <= Cardinality(T)
        BY <3>5, <3>6, FS_Subset
      <3>8. n <= faults /\ n \in Nat
        BY <1>0, <3>3, <3>4 DEF AnswersSound
      <3>9. Cardinality(Texts(b))' = Cardinality(T)
        BY <3>2
      <3> HIDE DEF n, T
      <3>10. Cardinality(T) \in Nat /\ Cardinality(T) <= n + 1 /\ Cardinality(T) >= 1
        BY <3>5, <3>6, <3>7, <3>8
      <3>11. ASSUME faults' = faults + 1 PROVE Cardinality(T) <= faults'
        BY <1>0, <3>8, <3>10, <3>11
      <3>12. Cardinality(T) <= 1 + faults'
        BY <1>0, <2>2, <2>3, <3>8, <3>10
      <3>13. AnswersSound(b)'
        BY <3>3, <3>9, <3>10, <3>11, <3>12 DEF AnswersSound
      <3> QED BY <2>5, <3>13 DEF AnswersInv
    <2> QED BY <2>1, <2>6, <2>7
  <1>3. ASSUME NEW k \in SyncJobs, Synchronising(k) PROVE AnswersInv'
    <2>1. Turn(k) /\ answers' = answers
      BY <1>3, SyncDoes
    <2>2. \A c \in Bookers : job'[Book(c)] = job[Book(c)]
      BY <2>1, Keys DEF Turn, OnlyOf, BaseInv, TypeOK
    <2>3. faults' \in 0 .. MaxFaults /\ faults <= faults'
      BY <2>1 DEF Turn
    <2> QED BY <1>b, <2>1, <2>2, <2>3
  <1>4. ASSUME NEW k \in Jobs, Ends(k) PROVE AnswersInv'
    <2>1. /\ Turn(k) /\ job'[k].at = "idle" /\ answers' = answers
          /\ \/ faults' = faults + 1 /\ job'[k].state \in {"ready", "dead"}
             \/ faults' = faults /\ job[k].at = "report" /\ job'[k].state = "done"
      BY <1>4, EndDoes
    <2>2. \A c \in Bookers : Book(c) # k => job'[Book(c)] = job[Book(c)]
      BY <2>1, Keys DEF Turn, OnlyOf, BaseInv, TypeOK
    <2>3. faults' \in 0 .. MaxFaults /\ faults <= faults'
      BY <2>1 DEF Turn
    <2>4. ASSUME NEW b \in Bookers
          PROVE  AnsweredStays(b)
      BY <2>1, <2>2 DEF Answered, AnsweredStays
    <2> QED BY <1>a, <2>1, <2>3, <2>4
  <1>5. ASSUME NEW r \in Requests, Routes(r) PROVE AnswersInv'
    <2>1. answers' = answers
      BY <1>5 DEF Routes, CancelReads, CancelWrites, Reschedule, RequestEnqueues, RequestFails
    <2>2. faults' \in 0 .. MaxFaults /\ faults <= faults'
      BY <1>5, RoutesKeep DEF JobsGoOn
    <2> QED BY <1>5, <1>b, <2>1, <2>2, RoutesKeepBooks
  <1>6. ASSUME NEW e \in Rows, CompleteBooking(e) PROVE AnswersInv'
    <2>1. UNCHANGED <<job, faults, answers>>
      BY <1>6 DEF CompleteBooking
    <2>2. faults' \in 0 .. MaxFaults /\ faults <= faults'
      BY <1>0, <2>1 DEF TypeOK
    <2> QED BY <1>b, <2>1, <2>2
  <1>7. ASSUME NEW s \in Slots, OwnerAdds(s) PROVE AnswersInv'
    <2>1. UNCHANGED <<job, faults, answers>>
      BY <1>7 DEF OwnerAdds
    <2>2. faults' \in 0 .. MaxFaults /\ faults <= faults'
      BY <1>0, <2>1 DEF TypeOK
    <2> QED BY <1>b, <2>1, <2>2
  <1> QED BY <1>1, <1>2, <1>3, <1>4, <1>5, <1>6, <1>7 DEF Next

\* Nobody has an answer at first.
LEMMA AnswersInit == ASSUME Init PROVE AnswersInv
  <1>1. \A b \in Bookers : ~Answered(b)
    BY Keys DEF Init, Ready, Absent, Answered
  <1>2. \A b \in Bookers : Texts(b) = {}
    BY DEF Init, Texts
  <1>3. faults = 0
    BY DEF Init
  <1>4. Cardinality({}) = 0
    BY FS_EmptySet
  <1> QED BY <1>1, <1>2, <1>3, <1>4 DEF AnswersInv, AnswersSound

\* A booking job that is done answered its customer, and every answer beyond the first
\* cost a fault: the text leaves before the job is marked done.
THEOREM CustomersAnswered == Spec => []AnsweredOnce
  <1>1. BaseInv /\ AnswersInv => AnsweredOnce
    BY DEF AnsweredOnce, AnswersInv, AnswersSound, Answered, Texts
  <1>2. Spec => []AnswersInv
    BY AnswersInit, AnswersStep, AppointmentsSound, PTL DEF Spec
  <1> QED BY <1>1, <1>2, AppointmentsSound, PTL

-----------------------------------------------------------------------------
(* The calendar follows the bookings.                                      *)

\* A synchronisation is as far as it was.
AsFar(k) ==
    /\ job'[k].state = "absent" <=> job[k].state = "absent"
    /\ Synced(k)' => Synced(k)

\* A request for row e is as it was; others are not for it.
RequestsFor(e) ==
    \A r \in Requests :
        \/ asked'[r] = asked[r]
        \/ asked[r].row # e /\ asked'[r].row # e

\* The calendar goes on to follow a row that no step is about.
LEMMA StoredKept ==
  ASSUME NEW e \in Rows, Stored(e), RequestsFor(e),
         AsFar(Cancel(e)), \A r \in Requests : asked[r].row = e => AsFar(Move(r)),
         booking'[e] = booking[e], calendar'[e] = calendar[e]
  PROVE  Stored(e)'
  <1>1. ASSUME NEW r \in Requests
        PROVE  /\ Moves(r, e)' <=> Moves(r, e)
               /\ ToCancel(r, e)' <=> ToCancel(r, e)
               /\ asked[r].row = e => asked'[r] = asked[r]
    BY DEF RequestsFor, Moves, ToCancel, AsFar
  <1>2. Cancelling(e)' <=> Cancelling(e)
    BY DEF Cancelling, AsFar
  <1>3. Unmoved(e)' <=> Unmoved(e)
    BY <1>1 DEF Unmoved
  <1>4. \A r \in Requests : MovedOnce(r, e)' => MovedOnce(r, e) /\ asked[r].row = e
    BY <1>1 DEF MovedOnce, Moves
  <1>5. Synced(Cancel(e))' => Synced(Cancel(e))
    BY DEF AsFar
  <1>6. \A r \in Requests : asked[r].row = e => (Synced(Move(r))' => Synced(Move(r)))
    BY DEF AsFar
  <1>7. \A r \in Requests : MovedOnce(r, e)' => booking'[e].start = asked'[r].slot
    BY <1>1, <1>4 DEF Stored
  <1>8. \A r \in Requests : MovedOnce(r, e)' /\ ~Cancelling(e)' /\ Synced(Move(r))' =>
          calendar'[e] = asked'[r].slot
    BY <1>1, <1>2, <1>4, <1>6 DEF Stored
  <1>9. /\ booking'[e].event
        /\ booking'[e].status = "cancelled" =>
              Cancelling(e)' \/ \E r \in Requests : ToCancel(r, e)'
        /\ booking'[e].status = "open" /\ Unmoved(e)' =>
              ~Cancelling(e)' /\ \A r \in Requests : ~ToCancel(r, e)'
    BY <1>1, <1>2, <1>3 DEF Stored
  <1>10. /\ Unmoved(e)' /\ ~Cancelling(e)' => calendar'[e] = booking'[e].start
         /\ Synced(Cancel(e))' => calendar'[e] = Free
         /\ ~Cancelling(e)' => calendar'[e] # Free
    BY <1>2, <1>3, <1>5 DEF Stored
  <1> QED BY <1>7, <1>8, <1>9, <1>10 DEF Stored

\* An execution about to store a booking holds what it did.
LEMMA ToStoreKept ==
  ASSUME BaseInv, NEW b \in Bookers, ToStore(b), job'[Book(b)] = job[Book(b)],
         hand'[b] = hand[b],
         job[Book(b)].at = "insert" => calendar'[Own(b)] = calendar[Own(b)]
  PROVE  ToStore(b)'
  <1>1. Own(b)' = Own(b)
    BY DEF Own
  <1> QED BY <1>1 DEF ToStore

\* A step of no synchronisation and no request.
LEMMA FollowsKept ==
  ASSUME BaseInv, FollowsInv, asked' = asked,
         faults' = 0 => faults = 0,
         \A k \in SyncJobs : job'[k] = job[k],
         faults' = 0 => \A e \in Known : booking'[e] = booking[e] /\ calendar'[e] = calendar[e],
         faults' = 0 => \A e \in Known' \ Known : Stored(e)',
         faults' = 0 => \A b \in Bookers : ToStore(b)'
  PROVE  FollowsInv'
  <1>1. IsFiniteSet(Changed')
    <2>1. Changed' = Changed
      BY DEF Changed
    <2> QED BY <2>1 DEF FollowsInv
  <1>2. ASSUME faults' = 0
        PROVE  /\ \A k \in SyncJobs : job'[k].state # "dead"
               /\ \A e \in Known' : Stored(e)'
               /\ \A b \in Bookers : ToStore(b)'
    <2>1. ASSUME NEW e \in Known
          PROVE  Stored(e)'
      <3>1. e \in Rows /\ Stored(e)
        BY <1>2, <2>1 DEF Known, FollowsInv
      <3>2. AsFar(Cancel(e)) /\ \A r \in Requests : AsFar(Move(r))
        BY <3>1, Keys DEF AsFar, Synced
      <3>3. RequestsFor(e)
        BY DEF RequestsFor
      <3> QED BY <1>2, <2>1, <3>1, <3>2, <3>3, StoredKept
    <2> QED BY <1>2, <2>1 DEF FollowsInv
  <1> QED BY <1>1, <1>2 DEF FollowsInv

\* Without faults the other executions hold what they did.
LEMMA BookingFollows ==
  ASSUME BaseInv, RacesInv, FollowsInv, NEW b \in Bookers, BookTurn(b),
         Looks(b) \/ Creates(b) \/ Inserts(b) \/ Answers(b)
  PROVE  FollowsInv'
  <1>0. faults \in Nat /\ faults' \in Nat /\ faults <= faults' /\ JobsGoOn /\ SameJobs
    BY BookingKeeps, ExecutionAssumption DEF BaseInv, TypeOK, JobsGoOn
  <1>1. /\ \A c \in Bookers : c # b => job'[Book(c)] = job[Book(c)] /\ hand'[c] = hand[c]
        /\ \A k \in SyncJobs : job'[k] = job[k]
    BY Keys DEF BookTurn, Turn, OnlyOf, BaseInv, TypeOK
  <1>2. JobSound(Book(b))
    BY Keys DEF BaseInv
  <1>3. job[Book(b)].at # "idle" => Own(b) \in Rows /\ Own(b)[1] = b
                                    /\ Own(b)[2] = job[Book(b)].attempts
    BY <1>2, BookTypes DEF BaseInv
  <1>4. job[Book(b)].at \in {"create", "insert"} => Own(b) \notin Known
    BY <1>3, Keys DEF BaseInv, RowSound, TypeOK, JobRows
  <1>5. \A e \in Known : booking'[e] = booking[e] /\ calendar'[e] = calendar[e]
    <2>1. CASE Creates(b)
      BY <1>4, <2>1, CreatesStands, RowsAre DEF Creates, Known
    <2>2. CASE Inserts(b)
      BY <1>0, <1>4, <2>2, InsertStores DEF Inserts, Known
    <2> QED BY <2>1, <2>2 DEF Looks, Answers
  <1>6. ASSUME faults' = 0, NEW e \in Known' \ Known
        PROVE  Stored(e)'
    <2>1. Inserts(b)
      BY <1>6 DEF Looks, Creates, Answers, Known
    <2>2. /\ e = Own(b) /\ e \in Rows
          /\ booking'[e] = [status |-> "open", start |-> hand[b].slot, event |-> hand[b].event]
      BY <1>0, <1>6, <2>1, InsertStores
    <2>3. ToStore(b)
      BY <1>0, <1>6 DEF FollowsInv
    <2>4. hand[b].slot \in Slots /\ hand[b].event /\ calendar'[e] = hand[b].slot
      BY <2>1, <2>2, <2>3 DEF ToStore, Inserts
    <2>5. /\ booking'[e].status = "open" /\ booking'[e].event
          /\ booking'[e].start = hand[b].slot
      BY <2>2, <2>4
    <2>6. \A r \in Requests : asked[r].row # e
      BY <1>6, <2>2, RowsAre DEF BaseInv, AskedSound
    <2>7. asked' = asked
      BY DEF BookTurn
    <2>8. ~Cancelling(e)' /\ ~Synced(Cancel(e))'
      BY <1>1, <1>6, <2>2, Keys DEF BaseInv, RowSound, Cancelling, Synced, JobSound, Sound
    <2>9. \A r \in Requests : ~Moves(r, e)' /\ ~ToCancel(r, e)'
      BY <2>6, <2>7 DEF Moves, ToCancel
    <2>10. \A r \in Requests : ~MovedOnce(r, e)'
      BY <2>9 DEF MovedOnce
    <2>11. calendar'[e] = booking'[e].start /\ calendar'[e] # Free
      BY <2>4, <2>5, SlotsAssumption
    <2>12. booking'[e].status # "cancelled"
      BY <2>5
    <2> QED BY <2>5, <2>8, <2>9, <2>10, <2>11, <2>12 DEF Stored
  <1>7. ASSUME faults' = 0, NEW c \in Bookers
        PROVE  ToStore(c)'
    <2>0. ToStore(c)
      BY <1>0, <1>7 DEF FollowsInv
    <2>1. CASE c # b
      <3>1. JobSound(Book(c))
        BY Keys DEF BaseInv
      <3>2. job[Book(c)].at = "insert" =>
               Own(c) \in Rows /\ Own(c) \in Events /\ Own(c) # Own(b)
        BY <2>1, <3>1, BookTypes, RowsAre DEF BaseInv, Own
      <3>3. job[Book(c)].at = "insert" => calendar'[Own(c)] = calendar[Own(c)]
        BY <3>2, CreatesStands DEF Looks, Inserts, Answers
      <3> QED BY <1>1, <2>0, <2>1, <3>3, ToStoreKept
    <2>2. CASE c = b
      <3>1. ASSUME job'[Book(b)].at = "insert"
            PROVE  /\ hand'[b].slot \in Slots /\ hand'[b].event
                   /\ calendar'[Own(b)'] = hand'[b].slot
        <4>1. Creates(b)
          BY <3>1 DEF Looks, Inserts, Answers
        <4>2. /\ calendar'[Own(b)] = hand[b].slot
              /\ hand'[b].event /\ hand'[b].slot = hand[b].slot
          BY <1>0, <1>7, <4>1 DEF Creates
        <4>3. hand[b].slot \in Slots
          BY <4>1 DEF RacesInv, HandSound, Creates
        <4>4. Own(b)' = Own(b)
          BY <4>1 DEF Own, BookTurn, Ahead, Creates
        <4> QED BY <4>2, <4>3, <4>4
      <3> QED BY <2>2, <3>1 DEF ToStore
    <2> QED BY <2>1, <2>2
  <1>8. faults' = 0 => faults = 0
    BY <1>0
  <1>9. asked' = asked
    BY DEF BookTurn
  <1> QED BY <1>1, <1>5, <1>6, <1>7, <1>8, <1>9, FollowsKept

\* So without faults the end of an execution changes nothing that was stored.
LEMMA EndFollows ==
  ASSUME BaseInv, FollowsInv, NEW k \in Jobs, Ends(k)
  PROVE  FollowsInv'
  <1>0. faults \in Nat /\ faults' \in Nat /\ faults <= faults' /\ SameJobs
    BY EndKeeps, ExecutionAssumption DEF BaseInv, TypeOK, JobsGoOn
  <1>1. /\ Turn(k) /\ job[k].at # "idle" /\ job'[k].at = "idle"
        /\ UNCHANGED <<migrated, calendar, booking, answers, asked>>
        /\ \A c \in Bookers : Book(c) # k => hand'[c] = hand[c]
        /\ \/ faults' = faults + 1
           \/ faults' = faults /\ job[k].at = "report" /\ job'[k].state = "done"
    BY EndDoes
  <1>2. \A i \in Jobs : i # k => job'[i] = job[i]
    BY <1>1 DEF Turn, OnlyOf, BaseInv, TypeOK
  <1>3. Known' = Known
    BY <1>1 DEF Known
  <1>4. Changed' = Changed
    BY <1>0, Keys DEF Changed, SameJobs
  <1>5. ASSUME faults' = 0
        PROVE  /\ \A i \in SyncJobs : job'[i].state # "dead"
               /\ \A e \in Known' : Stored(e)'
               /\ \A b \in Bookers : ToStore(b)'
    <2>1. faults = 0 /\ job[k].at = "report" /\ job'[k].state = "done"
      BY <1>0, <1>1, <1>5
    <2>2. \A i \in SyncJobs : AsFar(i)
      BY <1>0, <1>2, <2>1, Keys DEF AsFar, Synced, SameJobs
    <2>3. ASSUME NEW e \in Known
          PROVE  Stored(e)'
      <3>1. e \in Rows /\ Stored(e) /\ RequestsFor(e)
        BY <1>1, <2>1, <2>3 DEF Known, FollowsInv, RequestsFor
      <3> QED BY <1>1, <2>2, <3>1, Keys, StoredKept
    <2>4. ASSUME NEW b \in Bookers
          PROVE  ToStore(b)'
      <3>1. CASE Book(b) = k
        BY <1>1, <3>1 DEF ToStore
      <3>2. CASE Book(b) # k
        BY <1>1, <1>2, <2>1, <3>2, Keys, ToStoreKept DEF FollowsInv
      <3> QED BY <3>1, <3>2
    <2>5. \A i \in SyncJobs : job'[i].state # "dead"
      BY <1>2, <2>1, Keys DEF FollowsInv
    <2> QED BY <1>3, <2>3, <2>4, <2>5
  <1> QED BY <1>4, <1>5 DEF FollowsInv

\* A synchronisation that reached the calendar leaves the row's event at its start, or gone.
LEMMA TellsStored ==
  ASSUME BaseInv, FollowsInv, NEW k \in SyncJobs, Tells(k), Turn(k), faults = 0, faults' = 0,
         UNCHANGED <<booking, asked>>
  PROVE  \A e \in Known : Stored(e)'
  <1>1. /\ \A i \in Jobs : i # k => job'[i] = job[i]
        /\ \A i \in Jobs : job'[i].state = "absent" <=> job[i].state = "absent"
    BY DEF Turn, OnlyOf, BaseInv, TypeOK
  <1>2. job[k].state # "absent"
    BY DEF Tells
  <1> DEFINE x == Target(k).event
  <1>3. x \in Rows /\ x \in Events /\ x \in Known
    BY <1>2, Targets, RowsAre
  <1>4. calendar' = IF calendar[x] = Free THEN calendar
                    ELSE [calendar EXCEPT ![x] = Target(k).slot]
    BY DEF Tells
  <1>5. /\ \A e \in Events : e # x => calendar'[e] = calendar[e]
        /\ calendar[x] = Free => calendar'[x] = Free
        /\ calendar[x] # Free => calendar'[x] = Target(k).slot
    BY <1>3, <1>4 DEF BaseInv, TypeOK
  <1>6. ASSUME NEW e \in Rows, Stored(e), e # x
        PROVE  Stored(e)'
    <2>1. Cancel(e) # k
      BY <1>2, <1>6, Targets
    <2>2. \A r \in Requests : asked[r].row = e => Move(r) # k
      BY <1>2, <1>6, Targets
    <2>3. /\ AsFar(Cancel(e)) /\ RequestsFor(e)
          /\ \A r \in Requests : asked[r].row = e => AsFar(Move(r))
      BY <1>1, <2>1, <2>2, Keys DEF AsFar, Synced, RequestsFor
    <2>4. calendar'[e] = calendar[e] /\ booking'[e] = booking[e]
      BY <1>5, <1>6, RowsAre
    <2> QED BY <1>6, <2>3, <2>4, StoredKept
  <1>7. Stored(x)'
    <2>x. PICK e \in Rows : e = x
      BY <1>3
    <2>0. Stored(e)
      BY <1>3, <2>x DEF FollowsInv
    <2>1. /\ \A r \in Requests : Moves(r, e)' <=> Moves(r, e)
          /\ \A r \in Requests : ToCancel(r, e)' <=> ToCancel(r, e)
          /\ Cancelling(e)' <=> Cancelling(e)
      BY <1>1, Keys DEF Moves, ToCancel, Cancelling
    <2>2. /\ Unmoved(e)' <=> Unmoved(e)
          /\ \A r \in Requests : MovedOnce(r, e)' <=> MovedOnce(r, e)
      BY <2>1 DEF Unmoved, MovedOnce
    <2>3. /\ booking'[e].event
          /\ booking'[e].status = "cancelled" =>
                Cancelling(e)' \/ \E r \in Requests : ToCancel(r, e)'
          /\ booking'[e].status = "open" /\ Unmoved(e)' =>
                ~Cancelling(e)' /\ \A r \in Requests : ~ToCancel(r, e)'
          /\ \A r \in Requests : MovedOnce(r, e)' => booking'[e].start = asked'[r].slot
      BY <2>0, <2>1, <2>2 DEF Stored
    <2>4. ASSUME k = Cancel(e)
          PROVE  Stored(e)'
      <3>1. Target(k).slot = Free
        BY <1>2, <2>4, Targets
      <3>2. calendar'[e] = Free
        BY <1>5, <2>x, <3>1
      <3>3. Cancelling(e)'
        BY <1>2, <2>1, <2>4 DEF Cancelling
      <3> QED BY <2>3, <3>2, <3>3 DEF Stored
    <2>5. ASSUME NEW r0 \in Requests, k = Move(r0)
          PROVE  Stored(e)'
      <3>1. /\ asked[r0].row = e /\ Target(k).slot = asked[r0].slot
            /\ Target(k).slot \in Slots
        BY <1>2, <2>5, <2>x, Targets
      <3>2. Moves(r0, e)
        BY <1>2, <2>5, <3>1 DEF Moves
      <3>3. \A r \in Requests : MovedOnce(r, e) => r = r0
        BY <3>2 DEF MovedOnce
      <3>4. ~Unmoved(e)
        BY <3>2 DEF Unmoved
      <3>5. Synced(Cancel(e))' => Synced(Cancel(e))
        <4>1. Cancel(e) # k /\ Cancel(e) \in Jobs
          BY <2>5, Keys
        <4> QED BY <1>1, <4>1 DEF Synced
      <3>6. Synced(Cancel(e))' => calendar'[e] = Free
        BY <1>5, <2>0, <2>x, <3>5 DEF Stored
      <3>7. ~Cancelling(e) => calendar'[e] = asked[r0].slot
        BY <1>5, <2>0, <2>x, <3>1 DEF Stored
      <3>8. ~Cancelling(e)' => calendar'[e] # Free
        BY <2>1, <3>1, <3>7, SlotsAssumption
      <3>9. \A r \in Requests : MovedOnce(r, e)' /\ ~Cancelling(e)' /\ Synced(Move(r))' =>
              calendar'[e] = asked'[r].slot
        BY <2>1, <2>2, <3>3, <3>7
      <3>10. Unmoved(e)' /\ ~Cancelling(e)' => calendar'[e] = booking'[e].start
        BY <2>2, <3>4
      <3> QED BY <2>3, <3>6, <3>8, <3>9, <3>10 DEF Stored
    <2>6. \/ k = Cancel(e)
          \/ \E r \in Requests : k = Move(r)
      BY <1>2, <2>x, Keys, Targets
    <2>7. Stored(e)'
      BY <2>4, <2>5, <2>6
    <2>8. x' = x
      BY DEF Target
    <2> QED BY <2>7, <2>8, <2>x
  <1>8. \A e \in Known : e \in Rows /\ Stored(e)
    BY DEF Known, FollowsInv
  <1>9. x' = x
    BY DEF Target
  <1> QED BY <1>6, <1>7, <1>8, <1>9

\* A synchronisation keeps all that.
LEMMA SyncFollows ==
  ASSUME BaseInv, FollowsInv, NEW k \in SyncJobs, Synchronising(k)
  PROVE  FollowsInv'
  <1>0. faults \in Nat /\ faults' \in Nat /\ faults <= faults' /\ SameJobs
    BY SyncKeeps, ExecutionAssumption DEF BaseInv, TypeOK, JobsGoOn
  <1>1. /\ Turn(k)
        /\ UNCHANGED <<migrated, booking, hand, answers, asked>>
        /\ \/ /\ calendar' = calendar /\ faults' = faults
              /\ job[k].state = "ready" /\ job[k].at = "idle"
              /\ job'[k].state = "running" /\ job'[k].at = "sync"
           \/ Tells(k)
    BY SyncDoes
  <1>2. \A i \in Jobs : i # k => job'[i] = job[i]
    BY <1>1 DEF Turn, OnlyOf, BaseInv, TypeOK
  <1>3. Known' = Known
    BY <1>1 DEF Known
  <1>4. Changed' = Changed
    BY <1>0, Keys DEF Changed, SameJobs
  <1>5. ASSUME faults' = 0
        PROVE  /\ \A i \in SyncJobs : job'[i].state # "dead"
               /\ \A e \in Known' : Stored(e)'
               /\ \A b \in Bookers : ToStore(b)'
    <2>1. faults = 0 /\ faults' = faults
      BY <1>0, <1>5
    <2>2. job'[k].state = "running"
      BY <1>1, <2>1 DEF Tells
    <2>3. \A i \in SyncJobs : job'[i].state # "dead"
      BY <1>2, <2>1, <2>2, Keys DEF FollowsInv
    <2>4. \A b \in Bookers : job'[Book(b)] = job[Book(b)]
      BY <1>2, Keys
    <2>5. CASE Tells(k)
      <3>1. \A e \in Known : Stored(e)'
        BY <1>1, <1>5, <2>1, <2>5, TellsStored
      <3>2. Target(k).event \in Known /\ Target(k).event \in Events
        BY <2>5, Targets, RowsAre DEF Tells
      <3>3. \A e \in Events : e # Target(k).event => calendar'[e] = calendar[e]
        BY <2>5, <3>2 DEF Tells, BaseInv, TypeOK
      <3>4. ASSUME NEW b \in Bookers
            PROVE  ToStore(b)'
        <4>1. JobSound(Book(b))
          BY Keys DEF BaseInv
        <4>2. job[Book(b)].at = "insert" =>
                /\ Own(b) \in Rows /\ Own(b)[1] = b /\ Own(b)[2] = job[Book(b)].attempts
                /\ job[Book(b)].attempts \in Nat
          BY <4>1, BookTypes DEF BaseInv
        <4>3. job[Book(b)].at = "insert" => Own(b) \notin Known
          BY <4>2 DEF BaseInv, RowSound
        <4>4. job[Book(b)].at = "insert" => calendar'[Own(b)] = calendar[Own(b)]
          BY <3>2, <3>3, <4>2, <4>3, RowsAre
        <4> QED BY <1>1, <2>1, <2>4, <4>4, ToStoreKept DEF FollowsInv
      <3> QED BY <1>3, <2>3, <3>1, <3>4
    <2>6. CASE /\ calendar' = calendar /\ faults' = faults
               /\ job[k].state = "ready" /\ job[k].at = "idle"
               /\ job'[k].state = "running" /\ job'[k].at = "sync"
      <3>1. \A i \in SyncJobs : AsFar(i)
        BY <1>0, <1>2, <2>6, Keys DEF AsFar, Synced, SameJobs
      <3>2. ASSUME NEW e \in Known
            PROVE  Stored(e)'
        <4>1. e \in Rows /\ Stored(e) /\ RequestsFor(e)
          BY <1>1, <2>1, <3>2 DEF Known, FollowsInv, RequestsFor
        <4> QED BY <1>1, <2>6, <3>1, <4>1, Keys, StoredKept
      <3>3. \A b \in Bookers : ToStore(b)'
        BY <1>1, <2>1, <2>4, <2>6, ToStoreKept DEF FollowsInv
      <3> QED BY <1>3, <2>3, <3>2, <3>3
    <2> QED BY <1>1, <2>5, <2>6
  <1> QED BY <1>4, <1>5 DEF FollowsInv

\* A request changes nothing that is stored but its own row.
LEMMA RouteElsewhere ==
  ASSUME BaseInv, NEW r \in Requests, NEW x \in Rows,
         \A i \in Requests : i # r => asked'[i] = asked[i],
         asked[r].row \in {NoRow, x}, asked'[r].row = x,
         \A k \in SyncJobs : k \notin {Cancel(x), Move(r)} => job'[k] = job[k],
         calendar' = calendar, \A e \in Rows : e # x => booking'[e] = booking[e]
  PROVE  \A e \in Rows : Stored(e) /\ e # x => Stored(e)'
  <1> SUFFICES ASSUME NEW e \in Rows, Stored(e), e # x
               PROVE  Stored(e)'
    OBVIOUS
  <1>1. asked[r].row # e /\ asked'[r].row # e
    BY RowsAre
  <1>2. RequestsFor(e)
    BY <1>1 DEF RequestsFor
  <1>3. AsFar(Cancel(e))
    BY Keys DEF AsFar, Synced
  <1>4. ASSUME NEW i \in Requests, asked[i].row = e
        PROVE  AsFar(Move(i))
    <2>1. i # r
      BY <1>1, <1>4
    <2>2. job'[Move(i)] = job[Move(i)]
      BY <2>1, Keys
    <2> QED BY <2>2 DEF AsFar, Synced
  <1> QED BY <1>2, <1>3, <1>4, StoredKept

\* The row x of request r, without faults.
LEMMA RouteStored ==
  ASSUME BaseInv, FollowsInv, NEW r \in Requests, Routes(r), faults = 0, faults' = 0
  PROVE  \A e \in Known' : Stored(e)'
  <1>0. /\ \A e \in Known : e \in Rows /\ Stored(e)
        /\ AskedSound(r) /\ TypeOK
    BY DEF Known, FollowsInv, BaseInv
  <1>r. asked \in [Requests -> RequestStates] /\ asked[r] \in RequestStates
    BY <1>0 DEF TypeOK, RequestStates
  <1>1. ASSUME CancelReads(r)
        PROVE  \A e \in Known' : Stored(e)'
    <2>1. PICK x \in Known : asked' = [asked EXCEPT ![r] = [NotAsked EXCEPT
                                 !.row = x, !.found = booking[x].status, !.at = "write"]]
      BY <1>1 DEF CancelReads
    <2>2. /\ asked'[r].row = x /\ asked'[r].at = "write"
          /\ \A i \in Requests : i # r => asked'[i] = asked[i]
      BY <1>r, <2>1 DEF NotAsked
    <2>3. UNCHANGED <<job, calendar, booking>> /\ Known' = Known
      BY <1>1 DEF CancelReads, Known
    <2>4. asked[r].at = "idle" /\ asked[r].row = NoRow /\ job[Move(r)].state = "absent"
      BY <1>0, <1>1 DEF CancelReads, Unasked, AskedSound
    <2>5. \A e \in Rows : Stored(e) /\ e # x => Stored(e)'
      BY <1>0, <2>2, <2>3, <2>4, RouteElsewhere
    <2>6. Stored(x)'
      <3>1. ASSUME NEW i \in Requests
            PROVE  (Moves(i, x)' <=> Moves(i, x)) /\ (ToCancel(i, x)' <=> ToCancel(i, x))
        <4>1. CASE i = r
          BY <1>0, <2>2, <2>3, <2>4, <4>1, RowsAre DEF Moves, ToCancel
        <4>2. CASE i # r
          BY <2>2, <2>3, <4>2 DEF Moves, ToCancel
        <4> QED BY <4>1, <4>2
      <3>2. \A i \in Requests : Moves(i, x) => i # r /\ asked'[i] = asked[i]
        BY <1>0, <2>2, <2>4, RowsAre DEF Moves
      <3>3. /\ Cancelling(x)' <=> Cancelling(x)
            /\ Unmoved(x)' <=> Unmoved(x)
            /\ \A i \in Requests : MovedOnce(i, x)' <=> MovedOnce(i, x)
            /\ \A i \in Requests : MovedOnce(i, x) => asked'[i] = asked[i]
            /\ \A k \in SyncJobs : Synced(k)' <=> Synced(k)
        BY <2>3, <3>1, <3>2 DEF Cancelling, Unmoved, MovedOnce, Synced
      <3>4. Stored(x)
        BY <1>0
      <3>5. Cancel(x) \in SyncJobs /\ \A i \in Requests : Move(i) \in SyncJobs
        BY <1>0, Keys
      <3>6. /\ \A i \in Requests : MovedOnce(i, x)' => booking'[x].start = asked'[i].slot
            /\ \A i \in Requests : MovedOnce(i, x)' /\ ~Cancelling(x)' /\ Synced(Move(i))' =>
                  calendar'[x] = asked'[i].slot
        BY <2>3, <3>3, <3>4, <3>5 DEF Stored
      <3>7. /\ booking'[x].event
            /\ booking'[x].status = "cancelled" =>
                  Cancelling(x)' \/ \E i \in Requests : ToCancel(i, x)'
            /\ booking'[x].status = "open" /\ Unmoved(x)' =>
                  ~Cancelling(x)' /\ \A i \in Requests : ~ToCancel(i, x)'
        BY <2>3, <3>1, <3>3, <3>4 DEF Stored
      <3>8. /\ Unmoved(x)' /\ ~Cancelling(x)' => calendar'[x] = booking'[x].start
            /\ Synced(Cancel(x))' => calendar'[x] = Free
            /\ ~Cancelling(x)' => calendar'[x] # Free
        BY <2>3, <3>3, <3>4, <3>5 DEF Stored
      <3> QED BY <3>6, <3>7, <3>8 DEF Stored
    <2> QED BY <1>0, <2>3, <2>5, <2>6
  <1>2. ASSUME CancelWrites(r)
        PROVE  \A e \in Known' : Stored(e)'
    <2>1. PICK x \in Known : x = asked[r].row
      BY <1>0, <1>2 DEF AskedSound, CancelWrites
    <2>2. x \in Rows /\ Stored(x) /\ booking[x].event
      BY <1>0 DEF Stored
    <2>3. /\ booking' = [booking EXCEPT ![x].status = "cancelled"]
          /\ asked' = [asked EXCEPT ![r].found = "absent", ![r].at = "cancel"]
          /\ asked[r].at = "write"
          /\ UNCHANGED <<job, calendar>>
      BY <1>2, <2>1, <2>2 DEF CancelWrites, Cancelled
    <2>4. "cancelled" \in Statuses \ {"absent"}
      BY DEF Statuses
    <2>5. /\ Known' = Known /\ booking'[x].status = "cancelled"
          /\ booking'[x].event = booking[x].event
          /\ \A e \in Rows : e # x => booking'[e] = booking[e]
      BY <2>2, <2>3, <2>4, OneBooking
    <2>6. booking'[x].start = booking[x].start
      BY <2>2, <2>3, <1>0 DEF TypeOK
    <2>7. /\ asked'[r].row = x /\ asked'[r].at = "cancel"
          /\ \A i \in Requests : i # r => asked'[i] = asked[i]
      BY <1>r, <2>1, <2>3 DEF RequestStates
    <2>8. \A e \in Rows : Stored(e) /\ e # x => Stored(e)'
      BY <2>1, <2>2, <2>3, <2>5, <2>7, RouteElsewhere
    <2>9. job[Move(r)].state = "absent"
      BY <1>0, <2>3 DEF AskedSound
    <2>10. Stored(x)'
      <3>1. ToCancel(r, x)'
        BY <2>7 DEF ToCancel
      <3>2. ASSUME NEW i \in Requests
            PROVE  Moves(i, x)' <=> Moves(i, x)
        <4>1. CASE i = r
          BY <2>3, <2>7, <2>9, <4>1 DEF Moves
        <4>2. CASE i # r
          BY <2>3, <2>7, <4>2 DEF Moves
        <4> QED BY <4>1, <4>2
      <3>3. \A i \in Requests : Moves(i, x) => asked'[i] = asked[i]
        BY <2>3, <2>7, <2>9 DEF Moves
      <3>4. /\ Cancelling(x)' <=> Cancelling(x)
            /\ Unmoved(x)' <=> Unmoved(x)
            /\ \A i \in Requests : MovedOnce(i, x)' <=> MovedOnce(i, x)
            /\ \A i \in Requests : MovedOnce(i, x) => asked'[i] = asked[i]
            /\ \A k \in SyncJobs : Synced(k)' <=> Synced(k)
        BY <2>3, <3>2, <3>3 DEF Cancelling, Unmoved, MovedOnce, Synced
      <3>5. Cancel(x) \in SyncJobs /\ \A i \in Requests : Move(i) \in SyncJobs
        BY <2>2, Keys
      <3>6. /\ \A i \in Requests : MovedOnce(i, x)' => booking'[x].start = asked'[i].slot
            /\ \A i \in Requests : MovedOnce(i, x)' /\ ~Cancelling(x)' /\ Synced(Move(i))' =>
                  calendar'[x] = asked'[i].slot
        BY <2>2, <2>3, <2>6, <3>4, <3>5 DEF Stored
      <3>7. /\ booking'[x].event
            /\ booking'[x].status = "cancelled" =>
                  Cancelling(x)' \/ \E i \in Requests : ToCancel(i, x)'
            /\ booking'[x].status # "open"
        BY <2>2, <2>5, <3>1
      <3>8. /\ Unmoved(x)' /\ ~Cancelling(x)' => calendar'[x] = booking'[x].start
            /\ Synced(Cancel(x))' => calendar'[x] = Free
            /\ ~Cancelling(x)' => calendar'[x] # Free
        BY <2>2, <2>3, <2>6, <3>4, <3>5 DEF Stored
      <3> QED BY <3>6, <3>7, <3>8 DEF Stored
    <2> QED BY <1>0, <2>5, <2>8, <2>10
  <1>3. ASSUME Reschedule(r)
        PROVE  \A e \in Known' : Stored(e)'
    <2>1. PICK x \in Known, s \in Slots :
            /\ booking' = [booking EXCEPT ![x].status = "open", ![x].start = s]
            /\ asked' = [asked EXCEPT ![r] = [NotAsked EXCEPT
                   !.row = x, !.slot = s, !.at = IF booking[x].event THEN "move" ELSE "done"]]
      BY <1>3 DEF Reschedule
    <2>2. x \in Rows /\ Stored(x) /\ booking[x].event
      BY <1>0 DEF Stored
    <2>3. /\ asked'[r].row = x /\ asked'[r].at = "move" /\ asked'[r].slot = s
          /\ \A i \in Requests : i # r => asked'[i] = asked[i]
      BY <1>r, <2>1, <2>2 DEF NotAsked
    <2>4. "open" \in Statuses \ {"absent"}
      BY DEF Statuses
    <2>5. /\ Known' = Known /\ booking'[x].status = "open"
          /\ booking'[x].event = booking[x].event
          /\ \A e \in Rows : e # x => booking'[e] = booking[e]
      BY <2>1, <2>2, <2>4, OneBooking
    <2>6. booking'[x].start = s
      <3>1. booking[x] \in [status : Statuses, start : Slots \cup {Free}, event : BOOLEAN]
        BY <1>0, <2>2 DEF TypeOK
      <3>2. booking'[x] = [booking[x] EXCEPT !.status = "open", !.start = s]
        BY <1>0, <2>1, <2>2 DEF TypeOK
      <3> QED BY <3>1, <3>2
    <2>7. asked[r].at = "idle" /\ asked[r].row = NoRow /\ job[Move(r)].state = "absent"
      BY <1>0, <1>3 DEF Reschedule, Unasked, AskedSound
    <2>8. UNCHANGED <<job, calendar>>
      BY <1>3 DEF Reschedule
    <2>9. \A e \in Rows : Stored(e) /\ e # x => Stored(e)'
      BY <2>2, <2>3, <2>5, <2>7, <2>8, RouteElsewhere
    <2>10. Stored(x)'
      <3>1. Moves(r, x)'
        BY <2>3 DEF Moves
      <3>2. \A i \in Requests : MovedOnce(i, x)' => i = r
        BY <3>1 DEF MovedOnce
      <3>3. ~Unmoved(x)'
        BY <3>1 DEF Unmoved
      <3>4. ~Synced(Move(r))'
        BY <2>7, <2>8, Keys DEF Synced, BaseInv, JobSound, Sound
      <3>5. /\ Cancelling(x)' <=> Cancelling(x)
            /\ Synced(Cancel(x))' <=> Synced(Cancel(x))
        BY <2>8 DEF Cancelling, Synced
      <3>6. \A i \in Requests : MovedOnce(i, x)' => booking'[x].start = asked'[i].slot
        BY <2>3, <2>6, <3>2
      <3>7. \A i \in Requests : ~(MovedOnce(i, x)' /\ Synced(Move(i))')
        BY <3>2, <3>4
      <3>8. /\ Synced(Cancel(x))' => calendar'[x] = Free
            /\ ~Cancelling(x)' => calendar'[x] # Free
        BY <2>2, <2>8, <3>5 DEF Stored
      <3>9. booking'[x].event /\ booking'[x].status # "cancelled"
        BY <2>2, <2>5
      <3> QED BY <3>3, <3>6, <3>7, <3>8, <3>9 DEF Stored
    <2> QED BY <1>0, <2>5, <2>9, <2>10
  <1>4. ASSUME RequestEnqueues(r)
        PROVE  \A e \in Known' : Stored(e)'
    <2>1. PICK x \in Known : x = asked[r].row
      BY <1>0, <1>4 DEF AskedSound, RequestEnqueues
    <2>2. x \in Rows /\ Stored(x)
      BY <1>0
    <2>k. PICK k : k = IF asked[r].at = "move" THEN Move(r) ELSE Cancel(x)
      OBVIOUS
    <2>3. /\ asked[r].at \in {"cancel", "move"} /\ job' = Enqueued(job, k)
          /\ asked' = [asked EXCEPT ![r].at = "done"]
          /\ UNCHANGED <<calendar, booking>>
      BY <1>4, <2>1, <2>k DEF RequestEnqueues
    <2>4. k \in SyncJobs /\ k \in Jobs /\ k \in {Move(r), Cancel(x)}
      BY <2>2, <2>k, Keys
    <2>5. /\ \A i \in Jobs : i # k => job'[i] = job[i]
          /\ job[k].state # "absent" => job'[k] = job[k]
          /\ job[k].state = "absent" => job'[k] = Ready
          /\ Ready = [state |-> "ready", attempts |-> 0, at |-> "idle"]
      BY <1>0, <2>3, <2>4, Enqueuing DEF TypeOK
    <2>6. job'[k].state # "absent" /\ (Synced(k)' => Synced(k))
      BY <2>5 DEF Synced
    <2>7. /\ asked'[r].row = x /\ asked'[r].at = "done" /\ asked'[r].slot = asked[r].slot
          /\ \A i \in Requests : i # r => asked'[i] = asked[i]
      BY <1>r, <2>1, <2>3 DEF RequestStates
    <2>8. Known' = Known
      BY <2>3 DEF Known
    <2>9. \A e \in Rows : Stored(e) /\ e # x => Stored(e)'
      <3>1. \A i \in SyncJobs : i \notin {Cancel(x), Move(r)} => job'[i] = job[i]
        BY <2>4, <2>5, Keys
      <3> QED BY <2>1, <2>2, <2>3, <2>7, <3>1, RouteElsewhere
    <2>10. \A i \in SyncJobs : Synced(i)' => Synced(i)
      BY <2>4, <2>5, <2>6, Keys DEF Synced
    <2>11. \A i \in Requests : asked'[i].slot = asked[i].slot
      BY <2>7
    <2>12. Cancel(x) \in SyncJobs /\ \A i \in Requests : Move(i) \in SyncJobs
      BY <2>2, Keys
    <2>13. CASE asked[r].at = "move"
      <3>1. k = Move(r) /\ Cancel(x) # k
        BY <2>2, <2>k, <2>13, Keys
      <3>2. Cancelling(x)' <=> Cancelling(x)
        BY <2>5, <2>12, <3>1, Keys DEF Cancelling
      <3>3. ASSUME NEW i \in Requests
            PROVE  (Moves(i, x)' <=> Moves(i, x)) /\ (ToCancel(i, x)' <=> ToCancel(i, x))
        <4>1. CASE i = r
          <5>1. Moves(r, x)' /\ Moves(r, x)
            BY <2>1, <2>6, <2>7, <2>13, <3>1 DEF Moves
          <5>2. ~ToCancel(r, x)' /\ ~ToCancel(r, x)
            BY <2>7, <2>13 DEF ToCancel
          <5> QED BY <4>1, <5>1, <5>2
        <4>2. CASE i # r
          <5>1. job'[Move(i)] = job[Move(i)] /\ asked'[i] = asked[i]
            BY <2>5, <2>7, <3>1, <4>2, Keys
          <5> QED BY <5>1 DEF Moves, ToCancel
        <4> QED BY <4>1, <4>2
      <3>4. /\ Unmoved(x)' <=> Unmoved(x)
            /\ \A i \in Requests : MovedOnce(i, x)' <=> MovedOnce(i, x)
        BY <3>3 DEF Unmoved, MovedOnce
      <3>5. /\ \A i \in Requests : MovedOnce(i, x)' => booking'[x].start = asked'[i].slot
            /\ \A i \in Requests : MovedOnce(i, x)' /\ ~Cancelling(x)' /\ Synced(Move(i))' =>
                  calendar'[x] = asked'[i].slot
        BY <2>2, <2>3, <2>10, <2>11, <2>12, <3>2, <3>4 DEF Stored
      <3>6. /\ booking'[x].event
            /\ booking'[x].status = "cancelled" =>
                  Cancelling(x)' \/ \E i \in Requests : ToCancel(i, x)'
            /\ booking'[x].status = "open" /\ Unmoved(x)' =>
                  ~Cancelling(x)' /\ \A i \in Requests : ~ToCancel(i, x)'
        BY <2>2, <2>3, <3>2, <3>3, <3>4 DEF Stored
      <3>7. /\ Unmoved(x)' /\ ~Cancelling(x)' => calendar'[x] = booking'[x].start
            /\ Synced(Cancel(x))' => calendar'[x] = Free
            /\ ~Cancelling(x)' => calendar'[x] # Free
        BY <2>2, <2>3, <2>10, <2>12, <3>2, <3>4 DEF Stored
      <3>8. Stored(x)'
        BY <3>5, <3>6, <3>7 DEF Stored
      <3> QED BY <1>0, <2>8, <2>9, <3>8
    <2>14. CASE asked[r].at = "cancel"
      <3>1. k = Cancel(x)
        BY <2>k, <2>14
      <3>2. Cancelling(x)'
        BY <2>6, <3>1 DEF Cancelling
      <3>3. ToCancel(r, x)
        BY <2>1, <2>14 DEF ToCancel
      <3>4. booking[x].status = "open" => ~Unmoved(x)
        BY <2>2, <3>3 DEF Stored
      <3>5. ASSUME NEW i \in Requests
            PROVE  Moves(i, x)' <=> Moves(i, x)
        <4>0. job'[Move(i)] = job[Move(i)]
          BY <2>2, <2>5, <3>1, Keys
        <4>1. CASE i = r
          BY <2>7, <2>14, <2>1, <4>0, <4>1 DEF Moves
        <4>2. CASE i # r
          BY <2>7, <4>0, <4>2 DEF Moves
        <4> QED BY <4>1, <4>2
      <3>6. /\ Unmoved(x)' <=> Unmoved(x)
            /\ \A i \in Requests : MovedOnce(i, x)' <=> MovedOnce(i, x)
        BY <3>5 DEF Unmoved, MovedOnce
      <3>7. \A i \in Requests : MovedOnce(i, x)' => booking'[x].start = asked'[i].slot
        BY <2>2, <2>3, <2>11, <3>6 DEF Stored
      <3>8. Synced(Cancel(x))' => calendar'[x] = Free
        BY <2>2, <2>3, <2>10, <2>12 DEF Stored
      <3>9. /\ booking'[x].event
            /\ ~(booking'[x].status = "open" /\ Unmoved(x)')
        BY <2>2, <2>3, <3>4, <3>6 DEF Stored
      <3>10. Stored(x)'
        BY <3>2, <3>7, <3>8, <3>9 DEF Stored
      <3> QED BY <1>0, <2>8, <2>9, <3>10
    <2> QED BY <2>3, <2>13, <2>14
  <1>5. ~RequestFails(r)
    BY DEF RequestFails, Fault
  <1> QED BY <1>1, <1>2, <1>3, <1>4, <1>5 DEF Routes

\* A request adds one synchronisation at most, in a state to be claimed.
LEMMA RouteEnqueues ==
  ASSUME BaseInv, FollowsInv, NEW r \in Requests, Routes(r)
  PROVE  /\ IsFiniteSet(Changed')
         /\ \A k \in SyncJobs : job'[k].state = "dead" => job[k].state = "dead"
  <1>1. CASE job' = job
    <2>1. Changed' = Changed
      BY <1>1 DEF Changed
    <2> QED BY <1>1, <2>1 DEF FollowsInv
  <1>2. CASE RequestEnqueues(r)
    <2>1. PICK k : /\ job' = Enqueued(job, k)
                   /\ k = IF asked[r].at = "move" THEN Move(r) ELSE Cancel(asked[r].row)
      BY <1>2 DEF RequestEnqueues
    <2>2. asked[r].row \in Rows
      BY <1>2 DEF RequestEnqueues, BaseInv, AskedSound, Known
    <2>3. k \in SyncJobs /\ k \in Jobs
      BY <2>1, <2>2, Keys
    <2>4. /\ \A i \in Jobs : i # k => job'[i] = job[i]
          /\ job'[k] = job[k] \/ job'[k] = Ready
      BY <2>1, <2>3 DEF Enqueued, BaseInv, TypeOK
    <2>5. Ready.state = "ready"
      BY DEF Ready, Absent
    <2>6. Changed' \subseteq Changed \cup {k}
      BY <2>3, <2>4, Keys DEF Changed
    <2>7. IsFiniteSet(Changed \cup {k})
      BY FS_AddElement DEF FollowsInv
    <2> QED BY <2>3, <2>4, <2>5, <2>6, <2>7, FS_Subset, Keys
  <1> QED BY <1>1, <1>2 DEF Routes, CancelReads, CancelWrites, Reschedule, RequestFails

\* A request keeps all that.
LEMMA RouteFollows ==
  ASSUME BaseInv, FollowsInv, NEW r \in Requests, Routes(r)
  PROVE  FollowsInv'
  <1>0. faults \in Nat /\ faults' \in Nat /\ faults <= faults'
    BY RoutesKeep, ExecutionAssumption DEF BaseInv, TypeOK, JobsGoOn
  <1>1. ASSUME faults' = 0
        PROVE  /\ \A k \in SyncJobs : job'[k].state # "dead"
               /\ \A e \in Known' : Stored(e)'
               /\ \A b \in Bookers : ToStore(b)'
    <2>1. faults = 0
      BY <1>0, <1>1
    <2>2. UNCHANGED <<calendar, hand>>
      BY DEF Routes, CancelReads, CancelWrites, Reschedule, RequestEnqueues, RequestFails
    <2>3. \A b \in Bookers : ToStore(b)'
      BY <2>1, <2>2, RoutesKeepBooks, ToStoreKept DEF FollowsInv
    <2>4. \A k \in SyncJobs : job'[k].state # "dead"
      BY <2>1, RouteEnqueues DEF FollowsInv
    <2>5. \A e \in Known' : Stored(e)'
      BY <1>1, <2>1, RouteStored
    <2> QED BY <2>3, <2>4, <2>5
  <1> QED BY <1>1, RouteEnqueues DEF FollowsInv

\* A visit that took place leaves the row's start and its event.
LEMMA CompletionFollows ==
  ASSUME BaseInv, FollowsInv, NEW x \in Rows, CompleteBooking(x)
  PROVE  FollowsInv'
  <1>1. /\ booking' = [booking EXCEPT ![x].status = "completed"] /\ x \in Known
        /\ UNCHANGED <<job, faults, migrated, calendar, hand, answers, asked>>
    BY DEF CompleteBooking
  <1>2. "completed" \in Statuses \ {"absent"}
    BY DEF Statuses
  <1>3. /\ Known' = Known /\ booking'[x].status = "completed"
        /\ booking'[x].event = booking[x].event
        /\ \A e \in Rows : e # x => booking'[e] = booking[e]
    BY <1>1, <1>2, OneBooking
  <1>4. booking'[x].start = booking[x].start
    BY <1>1 DEF BaseInv, TypeOK
  <1>5. ASSUME faults = 0, NEW e \in Known
        PROVE  Stored(e)'
    <2>1. e \in Rows /\ Stored(e)
      BY <1>5 DEF Known, FollowsInv
    <2>2. CASE e # x
      <3>1. AsFar(Cancel(e)) /\ \A r \in Requests : AsFar(Move(r))
        BY <1>1 DEF AsFar, Synced
      <3>2. RequestsFor(e)
        BY <1>1 DEF RequestsFor
      <3> QED BY <1>1, <1>3, <2>1, <2>2, <3>1, <3>2, StoredKept
    <2>3. CASE e = x
      <3>1. /\ Cancelling(e)' <=> Cancelling(e)
            /\ Unmoved(e)' <=> Unmoved(e)
            /\ \A r \in Requests : MovedOnce(r, e)' <=> MovedOnce(r, e)
            /\ \A k \in SyncJobs : Synced(k)' <=> Synced(k)
        BY <1>1 DEF Cancelling, Unmoved, MovedOnce, Moves, Synced
      <3>2. Cancel(e) \in SyncJobs /\ \A i \in Requests : Move(i) \in SyncJobs
        BY <2>1, Keys
      <3>3. /\ booking'[e].event /\ booking'[e].status \notin {"open", "cancelled"}
            /\ booking'[e].start = booking[e].start
        BY <1>3, <1>4, <2>1, <2>3 DEF Stored
      <3>4. /\ \A i \in Requests : MovedOnce(i, e)' => booking'[e].start = asked'[i].slot
            /\ \A i \in Requests : MovedOnce(i, e)' /\ ~Cancelling(e)' /\ Synced(Move(i))' =>
                  calendar'[e] = asked'[i].slot
        BY <1>1, <2>1, <3>1, <3>2, <3>3 DEF Stored
      <3>5. /\ Unmoved(e)' /\ ~Cancelling(e)' => calendar'[e] = booking'[e].start
            /\ Synced(Cancel(e))' => calendar'[e] = Free
            /\ ~Cancelling(e)' => calendar'[e] # Free
        BY <1>1, <2>1, <3>1, <3>2, <3>3 DEF Stored
      <3> QED BY <3>3, <3>4, <3>5 DEF Stored
    <2> QED BY <2>2, <2>3
  <1>6. \A b \in Bookers : ToStore(b) => ToStore(b)'
    BY <1>1, ToStoreKept
  <1>7. Changed' = Changed
    BY <1>1 DEF Changed
  <1> QED BY <1>1, <1>3, <1>5, <1>6, <1>7 DEF FollowsInv

\* The owner's event is that of no booking.
LEMMA OwnerFollows ==
  ASSUME BaseInv, FollowsInv, NEW s \in Slots, OwnerAdds(s)
  PROVE  FollowsInv'
  <1>1. /\ calendar' = [calendar EXCEPT ![Owners] = s]
        /\ UNCHANGED <<job, faults, migrated, booking, hand, answers, asked>>
    BY DEF OwnerAdds
  <1>2. \A e \in Rows : calendar'[e] = calendar[e]
    BY <1>1, RowsAre DEF BaseInv, TypeOK
  <1>3. ASSUME faults' = 0, NEW b \in Bookers
        PROVE  ToStore(b)'
    <2>1. JobSound(Book(b))
      BY Keys DEF BaseInv
    <2>2. job[Book(b)].at = "insert" => Own(b) \in Rows
      BY <2>1, BookTypes DEF BaseInv
    <2> QED BY <1>1, <1>2, <1>3, <2>2, ToStoreKept DEF FollowsInv
  <1>4. Known' = Known /\ Known \subseteq Rows
    BY <1>1 DEF Known
  <1> QED BY <1>1, <1>2, <1>3, <1>4, FollowsKept

\* At first there is nothing to follow.
LEMMA FollowsInit == ASSUME Init PROVE FollowsInv
  <1>1. \A k \in SyncJobs : job[k].state = "absent"
    BY DEF Init, SyncJobs, Absent
  <1>2. Changed = {}
    BY <1>1 DEF Changed
  <1>3. Known = {}
    BY DEF Known, Init, NoBooking
  <1>4. \A b \in Bookers : ToStore(b)
    BY Keys DEF Init, Ready, Absent, ToStore
  <1> QED BY <1>1, <1>2, <1>3, <1>4, FS_EmptySet DEF FollowsInv

\* Every step keeps it.
LEMMA FollowsStep ==
  ASSUME BaseInv, RacesInv, FollowsInv, [Next]_vars
  PROVE  FollowsInv'
  <1>1. CASE UNCHANGED vars
    <2>1. UNCHANGED <<job, faults, calendar, booking, hand, asked>>
      BY <1>1 DEF vars
    <2>2. Known' = Known
      BY <2>1 DEF Known
    <2>3. \A b \in Bookers : ToStore(b) => ToStore(b)'
      BY <2>1, ToStoreKept
    <2>4. faults' = 0 => \A b \in Bookers : ToStore(b)'
      BY <2>1, <2>3 DEF FollowsInv
    <2> QED BY <2>1, <2>2, <2>4, FollowsKept
  <1>2. ASSUME NEW b \in Bookers, Booking(b) PROVE FollowsInv'
    BY <1>2, BookingDoes, BookingFollows
  <1>3. ASSUME NEW k \in SyncJobs, Synchronising(k) PROVE FollowsInv'
    BY <1>3, SyncFollows
  <1>4. ASSUME NEW k \in Jobs, Ends(k) PROVE FollowsInv'
    BY <1>4, EndFollows
  <1>5. ASSUME NEW r \in Requests, Routes(r) PROVE FollowsInv'
    BY <1>5, RouteFollows
  <1>6. ASSUME NEW e \in Rows, CompleteBooking(e) PROVE FollowsInv'
    BY <1>6, CompletionFollows
  <1>7. ASSUME NEW s \in Slots, OwnerAdds(s) PROVE FollowsInv'
    BY <1>7, OwnerFollows
  <1> QED BY <1>1, <1>2, <1>3, <1>4, <1>5, <1>6, <1>7 DEF Next

\* The changes of a row that was changed once at most.
LEMMA OneChange ==
  ASSUME FollowsInv, NEW e \in Rows, Cardinality(Changes(e)) <= 1
  PROVE  \A k, l \in Changes(e) : k = l
  <1>1. Changes(e) \subseteq Changed
    BY DEF Changes, Changed
  <1>2. IsFiniteSet(Changes(e))
    BY <1>1, FS_Subset DEF FollowsInv
  <1> SUFFICES ASSUME NEW k \in Changes(e), NEW l \in Changes(e), k # l
               PROVE  FALSE
    OBVIOUS
  <1>3. IsFiniteSet({k}) /\ Cardinality({k}) = 1
    BY FS_Singleton
  <1>4. Cardinality({k} \cup {l}) = 2
    <2>1. l \notin {k}
      OBVIOUS
    <2>2. Cardinality({k} \cup {l}) = Cardinality({k}) + 1
      BY <1>3, <2>1, FS_AddElement
    <2> QED BY <1>3, <2>2
  <1>5. Cardinality({k} \cup {l}) <= Cardinality(Changes(e))
    <2>1. {k} \cup {l} \subseteq Changes(e)
      OBVIOUS
    <2> QED BY <1>2, <2>1, FS_Subset
  <1>6. Cardinality(Changes(e)) \in Nat
    BY <1>2, FS_CardinalityType
  <1> QED BY <1>4, <1>5, <1>6

\* Without faults the calendar follows a booking that was changed once at most: when
\* no request and no job for it is under way, its event is at its start, or gone.
THEOREM BookingsAreFollowed == Spec => []CalendarFollowsBooking
  <1>1. BaseInv /\ FollowsInv => CalendarFollowsBooking
    <2> SUFFICES ASSUME BaseInv, FollowsInv, NEW e \in Rows,
                        faults = 0, ~Changing(e), Cardinality(Changes(e)) <= 1
                 PROVE  /\ booking[e].status = "open" => calendar[e] = booking[e].start
                        /\ booking[e].status = "cancelled" => calendar[e] = Free
      BY DEF CalendarFollowsBooking
    <2>0. CASE e \notin Known
      BY <2>0 DEF Known
    <2>1. CASE e \in Known
      <3>0. Stored(e)
        BY <2>1 DEF FollowsInv
      <3>1. \A r \in Requests : ~ToCancel(r, e)
        BY DEF Changing, ToCancel
      <3>2. \A k \in Changes(e) : Synced(k)
        <4> SUFFICES ASSUME NEW k \in Changes(e)
                     PROVE  Synced(k)
          OBVIOUS
        <4>1. k \in Jobs /\ k \in SyncJobs /\ job[k].state # "absent"
          BY Keys DEF Changes
        <4>2. job[k].state \notin {"ready", "running"} /\ job[k].state # "dead"
          BY <4>1 DEF Changing, FollowsInv
        <4>3. job[k].state \in JobStates
          BY <4>1 DEF BaseInv, TypeOK, JobRows
        <4> QED BY <4>1, <4>2, <4>3 DEF JobStates, Synced
      <3>3. Cancelling(e) => Cancel(e) \in Changes(e)
        BY Keys, Targets DEF Cancelling, Changes
      <3>4. \A r \in Requests : Moves(r, e) => Move(r) \in Changes(e)
        <4> SUFFICES ASSUME NEW r \in Requests, Moves(r, e)
                     PROVE  Move(r) \in Changes(e)
          OBVIOUS
        <4>1. asked[r].at # "move"
          BY DEF Changing, Moves
        <4>2. job[Move(r)].state # "absent" /\ Move(r) \in SyncJobs
          BY <4>1, Keys DEF Moves
        <4> QED BY <4>2, Targets DEF Moves, Changes
      <3>5. CASE Cancelling(e)
        <4>1. \A r \in Requests : ~Moves(r, e)
          BY <3>3, <3>4, <3>5, OneChange, Keys
        <4>2. calendar[e] = Free
          BY <3>0, <3>2, <3>3, <3>5 DEF Stored
        <4>3. booking[e].status # "open"
          BY <3>0, <3>5, <4>1 DEF Stored, Unmoved
        <4> QED BY <4>2, <4>3
      <3>6. CASE ~Cancelling(e)
        <4>1. booking[e].status # "cancelled"
          BY <3>0, <3>1, <3>6 DEF Stored
        <4>2. CASE Unmoved(e)
          BY <3>0, <3>6, <4>1, <4>2 DEF Stored
        <4>3. ASSUME NEW r \in Requests, Moves(r, e)
              PROVE  calendar[e] = booking[e].start
          <5>1. MovedOnce(r, e)
            BY <3>4, <4>3, OneChange, Keys DEF MovedOnce
          <5>2. Synced(Move(r))
            BY <3>2, <3>4, <4>3
          <5> QED BY <3>0, <3>6, <5>1, <5>2 DEF Stored
        <4> QED BY <4>1, <4>2, <4>3 DEF Unmoved
      <3> QED BY <3>5, <3>6
    <2> QED BY <2>0, <2>1
  <1>2. Spec => []RacesInv
    BY RacesInit, RacesStep, AppointmentsSound, PTL DEF Spec
  <1>3. Spec => []FollowsInv
    BY <1>2, FollowsInit, FollowsStep, AppointmentsSound, PTL DEF Spec
  <1> QED BY <1>1, <1>3, AppointmentsSound, PTL
=============================================================================
