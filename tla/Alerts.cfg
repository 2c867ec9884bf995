SPECIFICATION FairSpec
CONSTANTS
    Deliveries = {d1, d2}
    Workers = {w1, w2}
    NoDelivery = none
    MaxAttempts = 2
    MaxDepth = 2
    ResumeDepth = 1
    MaxFaults = 1
INVARIANTS
    OneSender
    SendsBounded
    SlotsBalance
PROPERTIES
    DeliverySettles
CHECK_DEADLOCK FALSE
