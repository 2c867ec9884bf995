----------------------------- MODULE SubmitOrder -----------------------------
(***************************************************************************)
(* POST /api/v1/orders (apps/execution_gateway/routes/orders.py,           *)
(* submit_order): the safety gates, the position reservation, the          *)
(* idempotency check, the database insert, the broker call and the updates *)
(* that follow it, for concurrent requests on one symbol.                  *)
(*                                                                         *)
(* The handler advances from one call to Redis, PostgreSQL or the broker   *)
(* to the next: requests run in several workers, and a worker may stop in  *)
(* between.  The two halt flags are read in one step, and a release is one *)
(* step with the answer that follows it.  Gates whose verdict depends on   *)
(* state modelled elsewhere (quarantine, reconciliation, fat finger)       *)
(* answer either way.  The positions table is taken to be up to date here; *)
(* OrderLifecycle is about how it lags behind the broker.                  *)
(***************************************************************************)
EXTENDS PositionReservation, FiniteSets

CONSTANTS
    ClientIds,        \* client_order_id values
    Deltas,           \* signed quantities: positive buys, negative sells
    StartPosition,    \* position of the symbol before the first request
    LostReplies,      \* may the broker's answer be lost after it acted?
    RedisRestarts     \* may Redis restart without its data?

ASSUME NotARequest == Absent \notin Requests
ASSUME RequestsAssumption == IsFiniteSet(Requests)
ASSUME DeltasAssumption == Deltas \subseteq Int
ASSUME StartPositionAssumption == StartPosition \in Int
ASSUME FaultsAssumption == LostReplies \in BOOLEAN /\ RedisRestarts \in BOOLEAN

VARIABLES
    dryRun,       \* config.dry_run
    request,      \* the order each request asks for
    pc,           \* the call each request's handler makes next
    outcome,      \* how each request was answered
    seen,         \* current_position, as each handler read it
    killSwitch,   \* KillSwitch state in Redis
    breaker,      \* CircuitBreaker state in Redis
    row,          \* orders table, by client_order_id: the request inserted
    status,       \* orders table, by client_order_id: the status column
    broker,       \* the order the broker holds, by client_order_id
    calls,        \* requests that have called AlpacaExecutor.submit_order
    position      \* shares held

setting == <<dryRun, request, seen>>
orderVars == <<row, status>>
gateVars == <<killSwitch, breaker>>
brokerVars == <<broker, position, calls>>
vars == <<dryRun, request, pc, outcome, seen, killSwitch, breaker, row, status,
          broker, calls, position, aggregate, token>>

Program == {"idle", "gated", "admitted", "sized", "reserved", "checked", "validated",
            "created", "accepted", "confirmed", "refused", "released",
            "done", "crashed"}

Outcomes == {"none", "submitted", "dry_run", "existing", "conflict",
             "blocked", "rejected", "failed", "error", "raised"}

RowStatus == {"none", "pending_new", "dry_run", "rejected", "failed"}

BrokerStatus == {"none", "live", "filled", "closed"}

Request == [cid : ClientIds, delta : Deltas]

TypeOK ==
    /\ ReservationTypeOK
    /\ dryRun \in BOOLEAN
    /\ request \in [Requests -> Request]
    /\ pc \in [Requests -> Program]
    /\ outcome \in [Requests -> Outcomes]
    /\ seen \in [Requests -> Int]
    /\ killSwitch \in {"ACTIVE", "ENGAGED", "MISSING"}
    /\ breaker \in {"OPEN", "TRIPPED", "MISSING"}
    /\ row \in [ClientIds -> Requests \union {Absent}]
    /\ status \in [ClientIds -> RowStatus]
    /\ broker \in [ClientIds -> BrokerStatus]
    /\ calls \subseteq Requests
    /\ position \in Int

Init ==
    /\ ReservationInit
    /\ dryRun \in BOOLEAN
    /\ request \in [Requests -> Request]
    /\ pc = [r \in Requests |-> "idle"]
    /\ outcome = [r \in Requests |-> "none"]
    /\ seen = [r \in Requests |-> 0]
    /\ killSwitch = "ACTIVE"
    /\ breaker = "OPEN"
    /\ row = [c \in ClientIds |-> Absent]
    /\ status = [c \in ClientIds |-> "none"]
    /\ broker = [c \in ClientIds |-> "none"]
    /\ calls = {}
    /\ position = StartPosition

-----------------------------------------------------------------------------
(* The handler.                                                            *)

Cid(r) == request[r].cid

Goto(r, label) == pc' = [pc EXCEPT ![r] = label]

Continue(r, label) == Goto(r, label) /\ UNCHANGED outcome

Answer(r, answer) ==
    /\ Goto(r, "done")
    /\ outcome' = [outcome EXCEPT ![r] = answer]

\* Gates 1 to 5: a halt, a state that is missing or cannot be read, or a
\* control the recovery manager holds unavailable blocks the order.  The
\* handler then awaits the quarantine lookup.
CheckHalts(r) ==
    /\ pc[r] = "idle"
    /\ \/ killSwitch = "ACTIVE" /\ breaker = "OPEN" /\ Continue(r, "gated")
       \/ Answer(r, "blocked")
    /\ UNCHANGED <<setting, orderVars, gateVars, brokerVars, reservationVars>>

\* Gates 6 and 7, quarantine and reconciliation readiness, both awaited.
CheckAdmission(r) ==
    /\ pc[r] = "gated"
    /\ Continue(r, "admitted") \/ Answer(r, "blocked")
    /\ UNCHANGED <<setting, orderVars, gateVars, brokerVars, reservationVars>>

\* Gate 8 first reads the position from the database, failing closed.
ReadPosition(r) ==
    /\ pc[r] = "admitted"
    /\ \/ Continue(r, "sized") /\ seen' = [seen EXCEPT ![r] = position]
       \/ Answer(r, "error") /\ UNCHANGED seen
    /\ UNCHANGED <<dryRun, request, orderVars, gateVars, brokerVars,
                   reservationVars>>

\* Gate 8: reserve(), with the position read before as its fallback.
ReservePosition(r) ==
    /\ pc[r] = "sized"
    /\ \/ Reserve(r, request[r].delta, seen[r]) /\ Continue(r, "reserved")
       \/ ReserveRefused(request[r].delta, seen[r]) /\ Answer(r, "blocked")
    /\ seen' = [seen EXCEPT ![r] = 0]
    /\ UNCHANGED <<dryRun, request, orderVars, gateVars, brokerVars>>

\* Mutant: the payload comparison is dropped.
AnswerFromRowUnchecked(r) == Answer(r, "existing")

\* _idempotency_payload_matches decides between the existing order and 409.
AnswerFromRow(r) ==
    Answer(r, IF request[row[Cid(r)]].delta = request[r].delta
              THEN "existing" ELSE "conflict")

\* Gate 9.
CheckIdempotency(r) ==
    /\ pc[r] = "reserved"
    /\ \/ /\ row[Cid(r)] = Absent
          /\ Continue(r, "checked")
          /\ UNCHANGED reservationVars
       \/ /\ row[Cid(r)] # Absent
          /\ Release(r)
          /\ AnswerFromRow(r)
    /\ UNCHANGED <<setting, orderVars, gateVars, brokerVars>>

\* Mutant: the fat-finger rejection forgets the reservation.
CheckFatFingerNoRelease(r) ==
    /\ pc[r] = "checked"
    /\ Continue(r, "validated") \/ Answer(r, "blocked")
    /\ UNCHANGED <<setting, orderVars, gateVars, brokerVars,
                   reservationVars>>

\* Gate 10, after awaiting the price and volume it needs.
CheckFatFinger(r) ==
    /\ pc[r] = "checked"
    /\ \/ Continue(r, "validated") /\ UNCHANGED reservationVars
       \/ Release(r) /\ Answer(r, "blocked")
    /\ UNCHANGED <<setting, orderVars, gateVars, brokerVars>>

\* Mutant: the insert overwrites the row of the same client_order_id.
CreateOrderUpsert(r) ==
    /\ pc[r] = "validated"
    /\ row' = [row EXCEPT ![Cid(r)] = r]
    /\ status' = [status EXCEPT ![Cid(r)] =
                    IF dryRun THEN "dry_run" ELSE "pending_new"]
    /\ Continue(r, "created")
    /\ UNCHANGED <<setting, gateVars, brokerVars, reservationVars>>

\* create_order: the primary key decides between concurrent duplicates.
CreateOrder(r) ==
    /\ pc[r] = "validated"
    /\ \/ /\ row[Cid(r)] = Absent
          /\ row' = [row EXCEPT ![Cid(r)] = r]
          /\ status' = [status EXCEPT ![Cid(r)] =
                          IF dryRun THEN "dry_run" ELSE "pending_new"]
          /\ Continue(r, "created")
          /\ UNCHANGED reservationVars
       \/ /\ row[Cid(r)] # Absent
          /\ Release(r)
          /\ AnswerFromRow(r)
          /\ UNCHANGED orderVars
    /\ UNCHANGED <<setting, gateVars, brokerVars>>

\* The database fails in gate 9 or in create_order.
DatabaseError(r) ==
    /\ pc[r] \in {"reserved", "validated"}
    /\ Release(r)
    /\ Answer(r, "error")
    /\ UNCHANGED <<setting, orderVars, gateVars, brokerVars>>

\* The broker is not called: DRY_RUN, or a gateway without Alpaca credentials,
\* which leaves the row at pending_new.
SkipBroker(r) ==
    /\ pc[r] = "created"
    /\ Release(r)
    /\ Answer(r, IF dryRun THEN "dry_run" ELSE "error")
    /\ UNCHANGED <<setting, orderVars, gateVars, brokerVars>>

CallsBroker(r) ==
    /\ pc[r] = "created" /\ ~dryRun
    /\ calls' = calls \union {r}
    /\ UNCHANGED <<setting, orderVars, gateVars, position, reservationVars>>

\* The broker takes the order and its answer arrives.
BrokerAccepts(r) ==
    /\ CallsBroker(r)
    /\ broker[Cid(r)] = "none"
    /\ broker' = [broker EXCEPT ![Cid(r)] = "live"]
    /\ Continue(r, "accepted")

\* A validation error or a rejection, a connection that was never made, or
\* any other exception of the call.
BrokerRefuses(r) ==
    /\ CallsBroker(r)
    /\ \E answer \in {"rejected", "failed", "error"} :
          /\ Goto(r, "refused")
          /\ outcome' = [outcome EXCEPT ![r] = answer]
    /\ UNCHANGED broker

\* The broker takes the order but the answer is lost: after the retries the
\* client raises AlpacaConnectionError, or, when a retry arrives, the broker
\* answers that the client_order_id exists (AlpacaRejectionError).
BrokerReplyLost(r) ==
    /\ LostReplies
    /\ CallsBroker(r)
    /\ broker[Cid(r)] = "none"
    /\ broker' = [broker EXCEPT ![Cid(r)] = "live"]
    /\ \E answer \in {"rejected", "failed"} :
          /\ Goto(r, "refused")
          /\ outcome' = [outcome EXCEPT ![r] = answer]

\* Mutant: an error after the broker's answer releases the reservation.
ConfirmReservationOrRelease(r) ==
    /\ pc[r] = "accepted"
    /\ \/ Confirm(r) /\ Continue(r, "confirmed")
       \/ /\ Goto(r, "refused")
          /\ outcome' = [outcome EXCEPT ![r] = "error"]
          /\ UNCHANGED reservationVars
    /\ UNCHANGED <<setting, orderVars, gateVars, brokerVars>>

\* confirm() right after the broker's answer.
ConfirmReservation(r) ==
    /\ pc[r] = "accepted"
    /\ Confirm(r)
    /\ Continue(r, "confirmed")
    /\ UNCHANGED <<setting, orderVars, gateVars, brokerVars>>

\* update_order_status(status="pending_new"), then the response; a database
\* error here is only logged.
RecordAcceptance(r) ==
    /\ pc[r] = "confirmed"
    /\ \/ status' = [status EXCEPT ![Cid(r)] = "pending_new"]
       \/ UNCHANGED status
    /\ Answer(r, "submitted")
    /\ UNCHANGED <<setting, row, gateVars, brokerVars, reservationVars>>

\* release() in the broker error branches; the branch for unexpected errors
\* answers at once and leaves the row at pending_new.
ReleaseRefused(r) ==
    /\ pc[r] = "refused"
    /\ Release(r)
    /\ Continue(r, IF outcome[r] = "error" THEN "done" ELSE "released")
    /\ UNCHANGED <<setting, orderVars, gateVars, brokerVars>>

\* update_order_status_cas in the broker error branches, then the response.
RecordRefusal(r) ==
    /\ pc[r] = "released"
    /\ status' = [status EXCEPT ![Cid(r)] = outcome[r]]
    /\ Goto(r, "done")
    /\ UNCHANGED <<setting, row, outcome, gateVars, brokerVars,
                   reservationVars>>

\* A call raises outside every branch that would undo the reservation: reserve()
\* or release() itself, the fat-finger context, the status update of a refusal,
\* or confirm() after the broker's answer, which the catch-all branch only logs.
\* The request is answered 500.  A Redis call may have acted before it raised.
CallRaises(r) ==
    /\ \/ /\ pc[r] \in {"sized", "reserved", "checked", "validated", "created",
                         "accepted", "refused", "released"}
          /\ UNCHANGED reservationVars
       \/ pc[r] = "sized" /\ Reserve(r, request[r].delta, seen[r])
       \/ /\ pc[r] \in {"reserved", "checked", "validated", "created", "refused"}
          /\ Release(r)
       \/ pc[r] = "accepted" /\ Confirm(r)
    /\ Answer(r, "raised")
    /\ seen' = [seen EXCEPT ![r] = 0]
    /\ UNCHANGED <<dryRun, request, orderVars, gateVars, brokerVars>>

\* The worker stops between two calls: nothing is answered or undone.
Crash(r) ==
    /\ pc[r] \notin {"idle", "done", "crashed"}
    /\ Goto(r, "crashed")
    /\ UNCHANGED <<setting, outcome, orderVars, gateVars, brokerVars,
                   reservationVars>>

-----------------------------------------------------------------------------
(* The environment.                                                        *)

handlerVars == <<setting, pc, outcome, row, status, calls>>

\* engage, disengage, or the initialization of a missing state.
ChangeKillSwitch ==
    /\ killSwitch' = IF killSwitch = "ACTIVE" THEN "ENGAGED" ELSE "ACTIVE"
    /\ UNCHANGED <<handlerVars, breaker, broker, position, reservationVars>>

\* trip, reset, or the initialization of a missing state.
ChangeBreaker ==
    /\ breaker' = IF breaker = "OPEN" THEN "TRIPPED" ELSE "OPEN"
    /\ UNCHANGED <<handlerVars, killSwitch, broker, position, reservationVars>>

BrokerFills(c) ==
    /\ broker[c] = "live"
    /\ broker' = [broker EXCEPT ![c] = "filled"]
    /\ position' = position + request[row[c]].delta
    /\ UNCHANGED <<handlerVars, gateVars, reservationVars>>

\* Canceled, expired or rejected later: nothing returns the reservation.
BrokerCloses(c) ==
    /\ broker[c] = "live"
    /\ broker' = [broker EXCEPT ![c] = "closed"]
    /\ UNCHANGED <<handlerVars, gateVars, position, reservationVars>>

TokenExpires(r) ==
    /\ ExpireToken(r)
    /\ UNCHANGED <<handlerVars, gateVars, broker, position>>

RedisRestart ==
    /\ RedisRestarts
    /\ LoseKeys
    /\ killSwitch' = "MISSING"
    /\ breaker' = "MISSING"
    /\ UNCHANGED <<handlerVars, broker, position>>

Handler(r) ==
    \/ CheckHalts(r) \/ CheckAdmission(r)
    \/ ReadPosition(r) \/ ReservePosition(r)
    \/ CheckIdempotency(r) \/ CheckFatFinger(r) \/ CreateOrder(r)
    \/ DatabaseError(r) \/ SkipBroker(r)
    \/ BrokerAccepts(r) \/ BrokerRefuses(r) \/ BrokerReplyLost(r)
    \/ ConfirmReservation(r) \/ RecordAcceptance(r)
    \/ ReleaseRefused(r) \/ RecordRefusal(r) \/ CallRaises(r)

Next ==
    \/ \E r \in Requests : Handler(r) \/ Crash(r) \/ TokenExpires(r)
    \/ \E c \in ClientIds : BrokerFills(c) \/ BrokerCloses(c)
    \/ ChangeKillSwitch \/ ChangeBreaker \/ RedisRestart

Spec == Init /\ [][Next]_vars

-----------------------------------------------------------------------------
(* Properties.                                                             *)

\* However many requests carry the same client_order_id, and wherever their
\* handlers stop, at most one of them ever calls the broker: create_order's
\* primary key decides, not the earlier idempotency read.
AtMostOneSubmission ==
    \A r, s \in calls : Cid(r) = Cid(s) => r = s

\* Only a request for the same order is answered with an existing row, on
\* both the sequential and the concurrent path; any other gets a conflict.
ExistingOrderMatches ==
    \A r \in Requests :
        outcome[r] = "existing" =>
            /\ row[Cid(r)] \notin {r, Absent}
            /\ request[row[Cid(r)]].delta = request[r].delta

\* A request that has been answered leaves no reservation token behind: every
\* exit of the handler confirms or releases.  The exception is the request
\* answered 500 because a call of CallRaises raised; its token stays until it
\* expires, also when confirm() raised for an order that is live.
AnsweredHoldsNoToken ==
    \A r \in Requests :
        pc[r] = "done" /\ outcome[r] # "raised" => token[r] = Absent

\* What the broker holds of a request's order: only the request that created
\* the row sends it.
BrokerOrder(r) == IF row[Cid(r)] = r THEN broker[Cid(r)] ELSE "none"

\* Requests whose order is live, or whose token still holds their reservation
\* and whose order has not reached the broker.
Exposed ==
    {r \in Requests : \/ BrokerOrder(r) = "live"
                      \/ BrokerOrder(r) = "none" /\ token[r] # Absent}

\* The shares that the requests in S buy, one by one.
Shares(req, S) == UNION {{r} \X (1 .. req[r].delta) : r \in S}

Exposure == position + Cardinality(Shares(request, Exposed))

\* With buy orders only, the aggregate never falls below what the account could
\* come to hold, through expiries, crashes and late closes.
AggregateCoversExposure == aggregate # Absent => Exposure <= aggregate

\* "Only Thread A's order executes -> position = 1000 (within limit)".
ExecutedWithinLimit == WithinLimit(position)

\* Once the broker holds an order its handler is not on a release path.
LiveOrderNeverReleased ==
    \A c \in ClientIds :
        broker[c] # "none" =>
            /\ row[c] # Absent
            /\ pc[row[c]] \notin {"refused", "released"}
            /\ outcome[row[c]] \notin {"rejected", "failed"}

-----------------------------------------------------------------------------
(* What the documentation says and the code does not do: TLC refutes these *)
(* (the README gives the constants), so no passing run checks them.        *)

\* "TTL prevents orphaned reservations": with no handler running, no token
\* left and no order at the broker, the reserved position is the actual one.
NoOrphanedReservation ==
    (/\ \A r \in Requests : pc[r] \in {"idle", "done", "crashed"}
     /\ \A r \in Requests : token[r] = Absent
     /\ \A c \in ClientIds : broker[c] = "none")
        => aggregate \in {Absent, position}

\* "reservation already confirmed immediately after acceptance": what the
\* catch-all branch logs when the error it handles is confirm()'s own.
LiveOrderConfirmed ==
    \A c \in ClientIds :
        broker[c] = "live" /\ pc[row[c]] = "done" => token[row[c]] = Absent

\* "All trading blocked immediately" once the kill switch is engaged.
NothingSentWhileEngaged ==
    [][calls' # calls => killSwitch # "ENGAGED"]_vars
=============================================================================
