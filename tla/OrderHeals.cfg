SPECIFICATION FairSpec
CONSTANTS
    Qty = 1
    MaxClock = 2
    MaxDeliveries = 2
    BothCancels = FALSE
    LostReplies = FALSE
PROPERTIES
    PositionHeals
    ClosedOrderSettles
