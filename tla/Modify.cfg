SPECIFICATION FairSpec
CONSTANTS
    k1 = k1
    k2 = k2
    k3 = k3
    r1 = r1
    r2 = r2
    r3 = r3
    r4 = r4
    Keys = {k1, k2, k3}
    Requests = {r1, r2, r3, r4}
    KeyOf <- MCKeyOf
    Increases = {k1, k3}
    Reducing = {k2}
    None = none
    MaxFaults = 3
    LostReplies = TRUE
INVARIANTS
    CompletedIsRecorded
    ReplacementCovered
PROPERTIES
    ImplementsPromise
    PendingSettles
CHECK_DEADLOCK FALSE
