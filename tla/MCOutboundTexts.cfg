\* Three texts, a cap of one, two at a time.
SPECIFICATION Spec
CONSTANTS
    t1 = t1
    t2 = t2
    t3 = t3
    p = p
    l = l
    Requests <- MCTexts
    Kind <- MCKind
    Exempt = {}
    HasHours = FALSE
    Handlers = 2
    MaxAttempts = 2
    DailyCap = 1
    MaxDeferrals = 0
    MaxDays = 1
    MaxFaults = 1
SYMMETRY TextSymmetry
INVARIANTS
    DailyCapHolds
    CountedIsRecorded
