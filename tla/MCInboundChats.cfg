\* Two chats: STOP or no text, START or HELP.
SPECIFICATION FairSpec
CONSTANTS
    c1 = c1
    c2 = c2
    Calls = {c1, c2}
    NoDelivery = NoDelivery
    Deliveries <- MCChats
    MaxAttempts = 2
    MaxFaults = 1
INVARIANTS
    DoneMeansHandled
PROPERTIES
    OptOutStands
    DeliveriesSettle
