SPECIFICATION Spec
CONSTANTS
    Clients = {c1, c2, c3}
    StartState = "QUIET_PERIOD"
    StartTrips = 1
    MaxTrips = 2
    Flushes = TRUE
    Disconnects = TRUE
SYMMETRY ClientSymmetry
INVARIANTS
    TripsRecorded
PROPERTY
    AtomicBreakerSpec
