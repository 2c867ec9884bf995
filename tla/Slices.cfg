SPECIFICATION FairSpec
CONSTANTS
    Orders <- MCOrders
    Requests = {r1}
    Starts = {"none", "accepted"}
    MaxAttempts = 2
    MaxFaults = 2
    MaxCrashes = 1
    LostReplies = TRUE
    ForcedGate = TRUE
INVARIANTS
    TypeOK
    PlanCoversOrder
    CancelHolds
    NeverSubmittedTwice
    LiveSliceStaysOpen
    ExpiredParentIsOver
PROPERTIES
    SlicesResolve
CHECK_DEADLOCK FALSE
