SPECIFICATION FairSpec
CONSTANTS
    Own = {o1}
    Replacements = {p1}
    Foreign = {f1}
    None = none
    MaxFaults = 2
    MaxCrashes = 1
INVARIANTS
    OwnOrderIsKnown
    MarkLeavesNothingOut
    GateMeansReconciled
PROPERTIES
    OpenOrphanQuarantined
    CatchesUp
CHECK_DEADLOCK FALSE
