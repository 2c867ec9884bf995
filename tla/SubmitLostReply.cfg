SPECIFICATION Spec
CONSTANTS
    Requests = {r1, r2}
    ClientIds = {c1, c2}
    Deltas <- BuyOnly
    MaxLimit = 3
    StartPosition = 0
    Absent = Absent
    LostReplies = TRUE
    RedisRestarts = FALSE
SYMMETRY RequestSymmetry
INVARIANT
    LiveOrderNeverReleased
