SPECIFICATION Spec
CONSTANTS
    b1 = b1
    b2 = b2
    s1 = s1
    s2 = s2
    r1 = r1
    r2 = r2
    Bookers = {b1, b2}
    Slots = {s1, s2}
    Requests = {r1, r2}
    MaxAttempts = 2
    MaxFaults = 1
    Handlers = 2
CONSTRAINT Bound
CHECK_DEADLOCK FALSE
INVARIANTS
    TypeOK
    OrphanNeedsFault
    AnsweredOnce
    CalendarFollowsBooking
PROPERTIES
    DoubleBookingNeedsRace
    CompletionUndoneOnlyByRace
SYMMETRY Symmetry
