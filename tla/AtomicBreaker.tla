---------------------------- MODULE AtomicBreaker ----------------------------
(***************************************************************************)
(* What the circuit breaker promises                                       *)
(* (libs/trading/risk_management/breaker.py, module docstring): "OPEN ->   *)
(* (violation detected) -> TRIPPED -> (manual reset) -> OPEN", each        *)
(* transition one atomic step whoever makes it.  The two writes the code   *)
(* makes without a watch, the initialization and the migration, keep the   *)
(* promise when the state is still the one they read; otherwise the step   *)
(* is marked as an overwrite.                                              *)
(***************************************************************************)
EXTENDS Naturals

CONSTANTS
    StartState,         \* what the state key holds at first
    StartTrips          \* the trips it counts

VARIABLES
    state,              \* the value of circuit_breaker:state
    overwriter          \* the client whose last write hit a state it had not read

AtomicInit ==
    /\ state = [mode |-> StartState, trips |-> StartTrips]
    /\ overwriter = {}

\* trip_count_today counts exactly the transitions to TRIPPED.
Trip ==
    /\ state.mode \in {"OPEN", "QUIET_PERIOD"}
    /\ state' = [mode |-> "TRIPPED", trips |-> state.trips + 1]
    /\ overwriter' = {}

\* Only a reset leaves TRIPPED, and it keeps the count.
Reset ==
    /\ state.mode = "TRIPPED"
    /\ state' = [mode |-> "OPEN", trips |-> state.trips]
    /\ overwriter' = {}

\* Redis loses the key; an operator then initializes it.
Flush ==
    /\ state' = [mode |-> "MISSING", trips |-> 0]
    /\ overwriter' = {}

Initialize ==
    /\ state.mode = "MISSING"
    /\ state' = [mode |-> "OPEN", trips |-> 0]
    /\ overwriter' = {}

\* A state written by an older release.
Migrate ==
    /\ state.mode = "QUIET_PERIOD"
    /\ state' = [mode |-> "OPEN", trips |-> state.trips]
    /\ overwriter' = {}

\* An initialization or a migration that comes too late opens the breaker; the
\* one counts from 0, the other from the trips of the legacy document.
Overwrite ==
    /\ \E n \in {0, StartTrips} : state' = [mode |-> "OPEN", trips |-> n]
    /\ overwriter' # {}

AtomicNext == Trip \/ Reset \/ Flush \/ Initialize \/ Migrate \/ Overwrite

AtomicSpec == AtomicInit /\ [][AtomicNext]_<<state, overwriter>>
=============================================================================
