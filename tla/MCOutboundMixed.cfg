\* A text, a photo request and a quote of a lead.
SPECIFICATION Spec
CONSTANTS
    t1 = t1
    t2 = t2
    t3 = t3
    p = p
    l = l
    Requests <- MCMixed
    Kind <- MCKind
    Exempt = {}
    HasHours = TRUE
    Handlers = 1
    MaxAttempts = 2
    DailyCap = 1
    MaxDeferrals = 1
    MaxDays = 0
    MaxFaults = 1
INVARIANTS
    TypeOK
    ResultIsTrue
PROPERTIES
    NoTextAfterOptOut
