\* Texts in which nothing fails.
SPECIFICATION Spec
CONSTANTS
    t1 = t1
    t2 = t2
    t3 = t3
    p = p
    l = l
    Requests <- MCTexts
    Kind <- MCKind
    Exempt = {}
    HasHours = TRUE
    Handlers = 2
    MaxAttempts = 2
    DailyCap = 1
    MaxDeferrals = 0
    MaxDays = 0
    MaxFaults = 0
PROPERTIES
    CooldownKept
