SPECIFICATION OfficeSpec
CONSTANTS
    MaxAttempts = 2
    Handlers = 2
    MaxFaults = 2
    Drafts = {x1}
    Approvals = {a1, a2}
    MaxCost = 1
    Messages = {a1, a2}
    Recommended = {"reply", "question", "details", "quote", "book", "resolved"}
    HandOffs = {a1, a2}
    FollowUps = {x1}
    Manual = {x1}
    Imports = {y1}
    Files = {z1}
    Chunks = 2
    MaxEdits = 2
    Connects = {a1, a2}
    Disconnects = {x1}
    Refreshes = {b1, b2}
    Customers = {a1, a2}
    Tokens = {b1, b2}
    Rollups = {a1, a2}
    LeadIds = {x1}
    MaxCalls = 1
    Loops = {a1, a2}
    Businesses = {b1, b2}
    MaxRestarts = 1
    MaxDays = 2
    Horizon = 6
    Duration = 2
    Week = 3
    Windows <- OpeningWindows
    unused = unused
CONSTRAINT Bound
SYMMETRY Symmetry
CHECK_DEADLOCK FALSE
INVARIANTS
    TypesOK
    OneSendJobPerQuote
    StrandedNeedsFault
    SecondActionNeedsFault
    NoDecisionLost
    HandOffHasItsTask
    BareNeedsFault
    FirstEditIsEmbedded
    SpentLinkNeedsFault
    SnapshotsAgree
    OneMailPerLoop
    TimesAreRight
PROPERTIES
    JobsFollowLifecycle
    LeadGoesBackOnlyByRace
    TokensMixedOnlyByRefresh
