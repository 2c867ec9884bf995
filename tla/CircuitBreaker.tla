---------------------------- MODULE CircuitBreaker ----------------------------
(***************************************************************************)
(* The circuit breaker (libs/trading/risk_management/breaker.py) as its    *)
(* clients run it (libs/web_console_services/cb_service.py and the risk    *)
(* monitors), several processes against one Redis.                         *)
(*                                                                         *)
(* trip and reset read the state under WATCH, decide, and write it in a    *)
(* MULTI/EXEC that fails when the key was written in between.  WATCH and   *)
(* GET are one step: a write between them only fails the EXEC.  The trip   *)
(* history is a second key, written after the state.                       *)
(***************************************************************************)
EXTENDS Naturals, Sequences

CONSTANTS
    Clients,        \* processes that use the breaker
    StartState,     \* what the state key holds at first
    StartTrips,     \* the trips it counts, all of them in the history
    MaxTrips,       \* bound on the trips counted, and on those in the history
    Flushes,        \* may Redis lose its keys?
    Disconnects     \* may a call to Redis fail, or its reply be lost?

ASSUME StartAssumption == StartState \in {"OPEN", "TRIPPED", "QUIET_PERIOD"}
ASSUME MaxTripsAssumption == MaxTrips \in Nat

\* A state leaves OPEN, and an older release enters QUIET_PERIOD, through a trip.
ASSUME StartTripsAssumption ==
    StartTrips \in Nat /\ (StartState # "OPEN" => StartTrips >= 1)
ASSUME BreakerFaultsAssumption == Flushes \in BOOLEAN /\ Disconnects \in BOOLEAN

VARIABLES
    state,      \* circuit_breaker:state
    history,    \* circuit_breaker:trip_history, oldest first
    pc,         \* where each client's call is
    seen,       \* the state each client read under WATCH
    broken,     \* clients whose watched key was written since
    overwriter, \* the client whose write hit a state it had not read, if the last did
    unlogged,   \* trips whose client heard an error before it could record them
    restored    \* trips a migration counted again over a state it had not read

vars == <<state, history, pc, seen, broken, overwriter, unlogged, restored>>
ghostVars == <<overwriter, unlogged, restored>>

Modes == {"OPEN", "TRIPPED", "QUIET_PERIOD", "MISSING"}
State == [mode : Modes, trips : Nat]
Entries == [trip : Nat, reset : BOOLEAN]
Missing == [mode |-> "MISSING", trips |-> 0]

Watching == {"tripExec", "resetExec"}
WatchingHistory == {"stampExec"}
Calls == {"idle", "trip", "append", "reset", "stamp", "initialize", "migrate"}
            \union Watching \union WatchingHistory

TypeOK ==
    /\ state \in State
    /\ history \in Seq(Entries)
    /\ pc \in [Clients -> Calls]
    /\ seen \in [Clients -> State]
    /\ broken \subseteq Clients
    /\ overwriter \subseteq Clients
    /\ unlogged \subseteq Nat
    /\ restored \subseteq Nat

\* The history of the trips so far: only the one that still halts is not reset.
StartHistory ==
    [n \in 1..StartTrips |->
        [trip |-> n, reset |-> ~(StartState = "TRIPPED" /\ n = StartTrips)]]

Init ==
    /\ state = [mode |-> StartState, trips |-> StartTrips]
    /\ history = StartHistory
    /\ pc = [c \in Clients |-> "idle"]
    /\ seen = [c \in Clients |-> Missing]
    /\ broken = {}
    /\ overwriter = {}
    /\ unlogged = {}
    /\ restored = {}

-----------------------------------------------------------------------------

At(c, label) == pc' = [pc EXCEPT ![c] = label]

\* The call goes on at label and forgets what it read.
Forget(c, label) ==
    /\ At(c, label)
    /\ seen' = [seen EXCEPT ![c] = Missing]

\* The call returns or raises.
Return(c) == Forget(c, "idle")

WatchersOf(labels) == {c \in Clients : pc[c] \in labels}

\* A write by client c to a key breaks every other watch on it.
WriteState(c, new) ==
    /\ state' = new
    /\ overwriter' = IF pc[c] \notin Watching /\ seen[c] # state THEN {c} ELSE {}
    /\ broken' = broken \union (WatchersOf(Watching) \ {c})

WriteHistory(c, new) ==
    /\ history' = new
    /\ broken' = broken \union (WatchersOf(WatchingHistory) \ {c})

\* What _trip_transaction writes over the state it read ...
Tripped(old) == [mode |-> "TRIPPED", trips |-> old.trips + 1]

\* ... and what _reset_transaction and the migration write.
Reopened(old) == [mode |-> "OPEN", trips |-> old.trips]

\* GET, after a WATCH in trip and reset.
Read(c, label) ==
    /\ At(c, label)
    /\ seen' = [seen EXCEPT ![c] = state]
    /\ UNCHANGED <<state, history, broken, ghostVars>>

\* trip: a missing state raises, a tripped one is left alone.
TripRead(c) ==
    /\ pc[c] \in {"idle", "trip"}
    /\ \/ /\ state.mode \in {"MISSING", "TRIPPED"}
          /\ Return(c)
          /\ UNCHANGED <<state, history, broken, ghostVars>>
       \/ /\ state.mode \notin {"MISSING", "TRIPPED"}
          /\ state.trips < MaxTrips /\ Len(history) < MaxTrips
          /\ Read(c, "tripExec")

\* Mutant: the write is not conditional on the watch.
TripExecUnwatched(c) ==
    /\ pc[c] = "tripExec"
    /\ WriteState(c, Tripped(seen[c]))
    /\ At(c, "append")
    /\ UNCHANGED <<history, seen, unlogged, restored>>

\* EXEC in _trip_transaction; a WatchError starts over.
TripExec(c) ==
    /\ pc[c] = "tripExec"
    /\ \/ /\ c \in broken
          /\ Forget(c, "trip")
          /\ broken' = broken \ {c}
          /\ UNCHANGED <<state, overwriter>>
       \/ /\ c \notin broken
          /\ WriteState(c, Tripped(seen[c]))
          /\ At(c, "append")
          /\ UNCHANGED seen
    /\ UNCHANGED <<history, unlogged, restored>>

\* Mutant: the history entry is left to the next reset.
TripAppendForgets(c) ==
    /\ pc[c] = "append"
    /\ Return(c)
    /\ UNCHANGED <<state, history, broken, ghostVars>>

\* _append_to_history, after the EXEC and outside the transaction.
TripAppend(c) ==
    /\ pc[c] = "append"
    /\ WriteHistory(c, Append(history, [trip |-> seen[c].trips + 1, reset |-> FALSE]))
    /\ Return(c)
    /\ UNCHANGED <<state, ghostVars>>

\* reset: only a tripped state can be reset.
ResetRead(c) ==
    /\ pc[c] \in {"idle", "reset"}
    /\ \/ /\ state.mode # "TRIPPED"
          /\ Return(c)
          /\ UNCHANGED <<state, history, broken, ghostVars>>
       \/ /\ state.mode = "TRIPPED"
          /\ Read(c, "resetExec")

\* EXEC in _reset_transaction.
ResetExec(c) ==
    /\ pc[c] = "resetExec"
    /\ \/ /\ c \in broken
          /\ Forget(c, "reset")
          /\ broken' = broken \ {c}
          /\ UNCHANGED <<state, overwriter>>
       \/ /\ c \notin broken
          /\ WriteState(c, Reopened(seen[c]))
          /\ Forget(c, "stamp")
    /\ UNCHANGED <<history, unlogged, restored>>

\* update_history_with_reset, which the service calls after reset: the most
\* recent entry is stamped unless it already is.
StampRead(c) ==
    /\ pc[c] = "stamp"
    /\ IF history = <<>> \/ history[Len(history)].reset
       THEN Return(c) /\ UNCHANGED broken
       ELSE At(c, "stampExec") /\ UNCHANGED <<seen, broken>>
    /\ UNCHANGED <<state, history, ghostVars>>

Stamped(entry) == [trip |-> entry.trip, reset |-> TRUE]

StampExec(c) ==
    /\ pc[c] = "stampExec"
    /\ \/ /\ c \in broken
          /\ At(c, "stamp")
          /\ broken' = broken \ {c}
          /\ UNCHANGED <<history, seen>>
       \/ /\ c \notin broken
          /\ WriteHistory(c, [history EXCEPT ![Len(history)] = Stamped(@)])
          /\ Return(c)
    /\ UNCHANGED <<state, ghostVars>>

\* initialize_state(force=False): a GET, then a SET with no watch.
InitializeRead(c) ==
    /\ pc[c] = "idle"
    /\ state.mode = "MISSING"
    /\ Read(c, "initialize")

InitializeSet(c) ==
    /\ pc[c] = "initialize"
    /\ WriteState(c, [mode |-> "OPEN", trips |-> 0])
    /\ Return(c)
    /\ unlogged' = {}
    /\ restored' = {}
    /\ UNCHANGED history

\* migrate_legacy_quiet_period_state: a GET, then a SET with no watch of the
\* document read, whose trip count it keeps.
MigrateRead(c) ==
    /\ pc[c] = "idle"
    /\ state.mode = "QUIET_PERIOD"
    /\ Read(c, "migrate")

MigrateSet(c) ==
    /\ pc[c] = "migrate"
    /\ WriteState(c, Reopened(seen[c]))
    /\ Return(c)
    /\ restored' = IF seen[c] # state THEN 1..seen[c].trips ELSE restored
    /\ UNCHANGED <<history, unlogged>>

-----------------------------------------------------------------------------

\* A connection error: trip and reset are retried from the start, twice at
\* most; the service swallows an error of the stamp.
GiveUpOrRetry(c) ==
    \/ Return(c)
    \/ pc[c] \in {"trip", "tripExec", "append"} /\ Forget(c, "trip")
    \/ pc[c] \in {"reset", "resetExec"} /\ Forget(c, "reset")

\* A call fails before Redis acts on it.
Disconnect(c) ==
    /\ Disconnects
    /\ pc[c] # "idle"
    /\ GiveUpOrRetry(c)
    /\ broken' = broken \ {c}
    /\ unlogged' = IF pc[c] = "append" THEN unlogged \union {seen[c].trips + 1} ELSE unlogged
    /\ UNCHANGED <<state, history, overwriter, restored>>

\* Redis executes the transaction of trip or reset, and the reply is lost.
LoseExecReply(c) ==
    /\ Disconnects
    /\ pc[c] \in Watching /\ c \notin broken
    /\ WriteState(c, IF pc[c] = "tripExec" THEN Tripped(seen[c]) ELSE Reopened(seen[c]))
    /\ GiveUpOrRetry(c)
    /\ unlogged' = IF pc[c] = "tripExec" THEN unlogged \union {seen[c].trips + 1} ELSE unlogged
    /\ UNCHANGED <<history, restored>>

Flush ==
    /\ Flushes
    /\ state.mode # "MISSING"
    /\ state' = Missing
    /\ history' = <<>>
    /\ broken' = broken \union WatchersOf(Watching \union WatchingHistory)
    /\ overwriter' = {}
    /\ unlogged' = {}
    /\ restored' = {}
    /\ UNCHANGED <<pc, seen>>

Client(c) ==
    \/ TripRead(c) \/ TripExec(c) \/ TripAppend(c)
    \/ ResetRead(c) \/ ResetExec(c) \/ StampRead(c) \/ StampExec(c)
    \/ InitializeRead(c) \/ InitializeSet(c)
    \/ MigrateRead(c) \/ MigrateSet(c)
    \/ Disconnect(c) \/ LoseExecReply(c)

Next == Flush \/ \E c \in Clients : Client(c)

Spec == Init /\ [][Next]_vars

-----------------------------------------------------------------------------
(* Properties.                                                             *)

\* Every call of every client takes effect as one atomic transition of the
\* state machine the breaker documents, or not at all, except the unwatched
\* writes that land on a state their client has not read.
Atomic == INSTANCE AtomicBreaker
              WITH state <- state, overwriter <- overwriter,
                   StartState <- StartState, StartTrips <- StartTrips
AtomicBreakerSpec == Atomic!AtomicSpec

\* Every trip the state counts, the one that halts trading now included, has
\* its entry in the history or a client about to append it.  Two exceptions,
\* which the code does not prevent: the client that tripped was told of an error
\* before it appended (unlogged), and a migration that comes too late writes
\* back the count of a state whose history Redis may have lost (restored).  A
\* trip of someone else, a WATCH conflict, a reset or a stamp loses no entry.
TripsRecorded ==
    \A n \in 1..state.trips :
        \/ \E i \in DOMAIN history : history[i].trip = n
        \/ \E c \in Clients : pc[c] = "append" /\ seen[c].trips + 1 = n
        \/ n \in unlogged \union restored

-----------------------------------------------------------------------------
(* What the documentation says and the code does not do: TLC refutes these *)
(* (the README gives the constants), so no passing run checks them.        *)

\* "TRIPPED -> (manual reset) -> OPEN": nothing but a reset leaves TRIPPED,
\* except the loss of the key.
OnlyResetLeavesTripped ==
    [][state.mode = "TRIPPED" /\ state'.mode = "OPEN"
          => \E c \in Clients : pc[c] = "resetExec"]_vars

\* "Called after a successful reset to record the reset in history": an entry
\* that says it was reset is not the trip that halts trading now.
StampedTripIsOver ==
    state.mode = "TRIPPED" =>
        \A i \in DOMAIN history : history[i].trip = state.trips => ~history[i].reset
=============================================================================
