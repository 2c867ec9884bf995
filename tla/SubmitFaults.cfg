SPECIFICATION Spec
CONSTANTS
    Requests = {r1, r2}
    ClientIds = {c1, c2}
    Deltas <- BuyAndSell
    MaxLimit = 3
    StartPosition = 0
    Absent = Absent
    LostReplies = TRUE
    RedisRestarts = TRUE
SYMMETRY RequestSymmetry
INVARIANTS
    AtMostOneSubmission
    ExistingOrderMatches
    AnsweredHoldsNoToken
