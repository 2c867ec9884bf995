------------------------- MODULE PositionReservation -------------------------
(***************************************************************************)
(* Position reservations of one symbol in Redis                            *)
(* (libs/trading/risk_management/position_reservation.py).                 *)
(*                                                                         *)
(* Two kinds of keys exist: the aggregate key, which never expires, and    *)
(* one key per reservation token, which holds the reserved delta and       *)
(* expires after a TTL.  The three Lua scripts run atomically, so each is  *)
(* one action.                                                             *)
(***************************************************************************)
EXTENDS Integers

CONSTANTS
    Requests,   \* one reservation token is drawn per request
    MaxLimit,   \* position_limits.max_position_size
    Absent      \* value of a Redis key or a database row that does not exist

ASSUME MaxLimitAssumption == MaxLimit \in Nat
ASSUME AbsentAssumption == Absent \notin Int

VARIABLES
    aggregate,  \* position_reservation:{symbol}
    token       \* position_reservation:{symbol}:token:{token}, by request

reservationVars == <<aggregate, token>>

ReservationTypeOK ==
    /\ aggregate \in Int \union {Absent}
    /\ token \in [Requests -> Int \union {Absent}]

ReservationInit ==
    /\ aggregate = Absent
    /\ token = [r \in Requests |-> Absent]

Magnitude(n) == IF n < 0 THEN -n ELSE n

\* Mutant: the check starts from the caller's position, as it would without
\* reservations.
CurrentIgnoringReservations(fallback) == fallback

\* The position a reservation starts from: the stored one, or the caller's
\* position when the key is missing.
Current(fallback) == IF aggregate = Absent THEN fallback ELSE aggregate

WithinLimit(n) == Magnitude(n) <= MaxLimit

\* RESERVE_POSITION_LUA, granted.
Reserve(r, delta, fallback) ==
    /\ WithinLimit(Current(fallback) + delta)
    /\ aggregate' = Current(fallback) + delta
    /\ token' = [token EXCEPT ![r] = delta]

\* RESERVE_POSITION_LUA, LIMIT_EXCEEDED.
ReserveRefused(delta, fallback) ==
    /\ ~WithinLimit(Current(fallback) + delta)
    /\ UNCHANGED reservationVars

\* RELEASE_RESERVATION_LUA: TOKEN_NOT_FOUND changes nothing; a missing
\* aggregate counts as zero.
Release(r) ==
    \/ /\ token[r] = Absent
       /\ UNCHANGED reservationVars
    \/ /\ token[r] # Absent
       /\ aggregate' = Current(0) - token[r]
       /\ token' = [token EXCEPT ![r] = Absent]

\* CONFIRM_RESERVATION_LUA: the position stays reserved.
Confirm(r) ==
    /\ token' = [token EXCEPT ![r] = Absent]
    /\ UNCHANGED aggregate

\* Mutant: expiry gives the position back while the request may still trade.
ExpireTokenReturnsPosition(r) ==
    /\ token[r] # Absent
    /\ aggregate' = Current(0) - token[r]
    /\ token' = [token EXCEPT ![r] = Absent]

\* EXPIRE on the token key; the aggregate key has no TTL.
ExpireToken(r) ==
    /\ token[r] # Absent
    /\ token' = [token EXCEPT ![r] = Absent]
    /\ UNCHANGED aggregate

\* Redis restarts without its data.
LoseKeys ==
    /\ aggregate # Absent
    /\ aggregate' = Absent
    /\ token' = [r \in Requests |-> Absent]
=============================================================================
