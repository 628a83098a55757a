------------------------------ MODULE Algorithms ------------------------------
(***************************************************************************)
(* The time arithmetic of the workers: which slots are offered (lib/         *)
(* google_calendar.py), when the business opens next (lib/hours.py), and     *)
(* what time a customer's words mean (booking_worker.py).  Each is a          *)
(* function of an input chosen at the start.  Times are whole units: slots    *)
(* and openings count from some midnight, a clock is a day and an hour.       *)
(***************************************************************************)
EXTENDS Naturals, FiniteSets, SequencesExt

CONSTANTS
    Horizon,       \* end of the range searched for slots
    Duration,      \* _DEFAULT_SLOT_MINUTES
    Week,          \* days in a week
    Windows        \* the opening windows a weekday may have: sequences of <<from, to>>

VARIABLE input

-----------------------------------------------------------------------------
(* compute_free_slots: busy blocks may overlap, and begin before the range. *)

Later(a, b) == IF a < b THEN b ELSE a

\* The slots that fit one after another from the cursor on.
FillUpTo(found, limit) ==
    LET n == IF found.cursor < limit THEN (limit - found.cursor) \div Duration ELSE 0
    IN [cursor |-> found.cursor + n * Duration,
        slots |-> found.slots \cup {found.cursor + k * Duration : k \in 0 .. n - 1}]

\* Mutant: a block that ends before an earlier one takes the cursor back.
PassBlockBack(found, block) == [FillUpTo(found, block[1]) EXCEPT !.cursor = block[2]]
PassBlock(found, block) == [FillUpTo(found, block[1]) EXCEPT !.cursor = Later(@, block[2])]

FreeSlots(busy, from) ==
    LET inOrder == SetToSortSeq(busy, LAMBDA x, y : x[1] < y[1])
        passed == FoldLeft(PassBlock, [cursor |-> from, slots |-> {}], inOrder)
    IN FillUpTo(passed, Horizon).slots

Blocks == {b \in (0 .. Horizon) \X (0 .. Horizon) : b[1] < b[2]}
SlotInputs ==
    [of : {"slots"}, from : {1}, busy : {{a, b, c} : a, b, c \in Blocks} \cup {{}}]

-----------------------------------------------------------------------------
(* is_within_business_hours and next_business_open.  A clock <<day, hour>>; *)
(* the weekday of day d is d % Week.                                        *)

WindowsOf(b, day) == IF day \in b.holidays THEN <<>> ELSE b.weekly[day % Week]

Within(b, clock) ==
    \E i \in DOMAIN WindowsOf(b, clock[1]) :
        LET w == WindowsOf(b, clock[1])[i] IN w[1] <= clock[2] /\ clock[2] <= w[2]

Before(a, b) == a[1] < b[1] \/ (a[1] = b[1] /\ a[2] < b[2])

Never == <<2 * Week + 1, 0>>

\* The first opening listed that is still to come, looking at today and the next seven
\* days: with the windows of a day in order, the earliest.
Openings(b, day) == [i \in DOMAIN WindowsOf(b, day) |-> <<day, WindowsOf(b, day)[i][1]>>]
NextOpen(b, now) ==
    LET listed == FlattenSeq([i \in 1 .. Week + 1 |-> Openings(b, now[1] + i - 1)])
        ahead == SelectSeq(listed, LAMBDA t : Before(now, t))
    IN IF ahead = <<>> THEN Never ELSE Head(ahead)

HoursInputs ==
    [of : {"hours"}, business : [weekly : [0 .. Week - 1 -> Windows], holidays : SUBSET (1 .. 2)],
     now : (0 .. Week - 1) \X (0 .. 3)]

-----------------------------------------------------------------------------
(* _resolve_preferred_time, of words that are no ISO time.                  *)

\* _TIME_OF_DAY, in its order.
TimeOfDay == <<<<"morning", 9>>, <<"late morning", 10>>, <<"midday", 12>>, <<"noon", 12>>,
               <<"afternoon", 13>>, <<"late afternoon", 15>>, <<"evening", 17>>, <<"night", 18>>>>
Phrases == {TimeOfDay[i][1] : i \in DOMAIN TimeOfDay} \cup {""}

\* The phrases that are part of a phrase.
PartsOf(phrase) ==
    {phrase} \cup CASE phrase = "late morning" -> {"morning"}
                    [] phrase = "afternoon" -> {"noon"}
                    [] phrase = "late afternoon" -> {"noon", "afternoon"}
                    [] OTHER -> {}

\* The first entry whose words occur in the text, so that an afternoon begins at noon.
HourMeant(phrase) ==
    LET found == SelectSeq(TimeOfDay, LAMBDA e : e[1] \in PartsOf(phrase))
    IN IF found = <<>> THEN 9 ELSE Head(found)[2]

Unresolved == <<0, 0>>
DaysToNext(weekday, today) ==
    LET ahead == (weekday + 7 - today) % 7 IN IF ahead = 0 THEN 7 ELSE ahead

\* Days ahead and hour.
PreferredTime(text, now) ==
    LET hour == HourMeant(text.phrase)
        soonest == <<IF hour <= now[2] THEN 1 ELSE 0, hour>>
    IN CASE text.day = "today" -> soonest
         [] text.day = "tomorrow" -> <<1, hour>>
         [] text.day = "next week" -> <<7 - now[1], hour>>
         [] text.day = "weekday" -> <<DaysToNext(text.weekday, now[1]), hour>>
         [] text.day = "" /\ text.phrase # "" -> soonest
         [] OTHER -> Unresolved

DayWords == {"", "today", "tomorrow", "next week", "weekday"}
WordInputs ==
    [of : {"words"}, phrase : Phrases, day : DayWords, weekday : 0 .. 6,
     now : (0 .. 6) \X {8, 9, 12, 18, 23}]

-----------------------------------------------------------------------------

Init ==
    \/ input \in SlotInputs
    \/ input \in HoursInputs
    \/ input \in WordInputs
Next == UNCHANGED input

-----------------------------------------------------------------------------
(* Properties.                                                             *)

\* The slots offered lie in the range, apart from one another and from whatever is
\* busy, and no further slot would fit.
Apart(t, from, to) == t + Duration <= from \/ to <= t
SlotsFillTheGaps ==
    LET slots == FreeSlots(input.busy, input.from)
        Open(t) == /\ t \in input.from .. Horizon - Duration
                   /\ \A b \in input.busy : Apart(t, b[1], b[2])
                   /\ \A u \in slots \ {t} : Apart(t, u, u + Duration)
    IN slots = {t \in 0 .. Horizon : Open(t)}

\* The two readings of the opening hours agree: the next opening is in business
\* hours, is still to come, and none is missed before it.
OpeningIsOpen ==
    LET b == input.business
        next == NextOpen(b, input.now)
    IN /\ next # Never => Within(b, next) /\ Before(input.now, next)
       /\ \A d \in input.now[1] .. input.now[1] + Week, h \in 0 .. 3 :
             Within(b, <<d, h>>) /\ Before(input.now, <<d, h>>) /\ Before(<<d, h>>, next)
                => \E i \in DOMAIN WindowsOf(b, d) : WindowsOf(b, d)[i][1] < h

\* A time that words resolve to is still to come, and is on the weekday they name.
TimeMeantIsAhead ==
    LET meant == PreferredTime(input, input.now)
    IN meant # Unresolved =>
          /\ Before(<<0, input.now[2]>>, meant)
          /\ input.day = "weekday" => (input.now[1] + meant[1]) % 7 = input.weekday

\* What the three algorithms compute is what their callers rely on.
TimesAreRight ==
    CASE input.of = "slots" -> SlotsFillTheGaps
      [] input.of = "hours" -> OpeningIsOpen
      [] input.of = "words" -> TimeMeantIsAhead
=============================================================================
