SPECIFICATION Spec
CONSTANTS
    Qty = 2
    MaxClock = 2
    MaxDeliveries = 2
    BothCancels = FALSE
    LostReplies = TRUE
INVARIANTS
    RowWithinBroker
PROPERTIES
    RowAdvances
    ClosedRowLocked
