\* A missed call, and one without a number or a channel.
SPECIFICATION Spec
CONSTANTS
    c1 = c1
    c2 = c2
    Calls = {c1, c2}
    NoDelivery = NoDelivery
    Deliveries <- MCDeliveries
    MaxAttempts = 2
    MaxFaults = 2
INVARIANTS
    TypeOK
    DoneMeansHandled
    ClassifiedMeansRecorded
    OneTextBackPerCall
