\* One STOP and one fault.
SPECIFICATION Spec
CONSTANTS
    c1 = c1
    c2 = c2
    Calls = {c1, c2}
    NoDelivery = NoDelivery
    Deliveries <- MCStop
    MaxAttempts = 2
    MaxFaults = 1
INVARIANTS
    RetriesRecover
