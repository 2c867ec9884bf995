SPECIFICATION Spec
CONSTANTS
    Requests = {r1, r2, r3}
    ClientIds = {c1, c2}
    Deltas <- BuyOnly
    MaxLimit = 3
    StartPosition = 1
    Absent = Absent
    LostReplies = FALSE
    RedisRestarts = FALSE
SYMMETRY RequestSymmetry
INVARIANTS
    AggregateCoversExposure
    ExecutedWithinLimit
    LiveOrderNeverReleased
