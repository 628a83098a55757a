\* A missed call in which nothing fails.
SPECIFICATION Spec
CONSTANTS
    c1 = c1
    c2 = c2
    Calls = {c1, c2}
    NoDelivery = NoDelivery
    Deliveries <- MCMissedCall
    MaxAttempts = 2
    MaxFaults = 0
INVARIANTS
    MissedCallsAnswered
