-------------------------- MODULE SubmitOrderProofs --------------------------
(***************************************************************************)
(* Theorems about SubmitOrder, for any number of requests, client order    *)
(* ids and quantities, and with every fault enabled, but for the theorems  *)
(* that say otherwise: a live order keeps its reservation if the broker's  *)
(* replies arrive, and the reservations cover the exposure if besides all  *)
(* orders buy and Redis keeps its data.                                    *)
(***************************************************************************)
EXTENDS SubmitOrder, FiniteSetTheorems, TLAPS

USE MaxLimitAssumption, AbsentAssumption, NotARequest, DeltasAssumption,
    StartPositionAssumption, FaultsAssumption

(* The handler's program points after create_order succeeded.              *)
AfterCreate == {"created", "accepted", "confirmed", "refused", "released"}

(* A request that got past create_order inserted the row of its client     *)
(* order id.                                                               *)
CallerOwnsRow ==
    \A r \in Requests :
        pc[r] \in AfterCreate \/ r \in calls => row[Cid(r)] = r

(* A row's creator is past create_order.                                   *)
RowHasCreator ==
    \A c \in ClientIds :
        row[c] # Absent => pc[row[c]] \in AfterCreate \union {"done", "crashed"}

(* The broker holds no order without a row.                                *)
BrokerHasRow ==
    \A c \in ClientIds : broker[c] # "none" => row[c] # Absent

(* A refused request already knows its answer.                             *)
RefusalDecided ==
    \A r \in Requests :
        /\ pc[r] = "refused" => outcome[r] \in {"rejected", "failed", "error"}
        /\ pc[r] = "released" => outcome[r] \in {"rejected", "failed"}

(* Only the requests between reserve() and its confirm() or release(),     *)
(* stopped there, or answered because a call raised there, hold a token.   *)
TokenHolders ==
    \A r \in Requests :
        (\/ pc[r] \in {"idle", "gated", "admitted", "sized", "confirmed", "released"}
         \/ pc[r] = "done" /\ outcome[r] # "raised")
            => token[r] = Absent

SubmissionInv ==
    /\ TypeOK
    /\ CallerOwnsRow
    /\ RowHasCreator
    /\ BrokerHasRow
    /\ RefusalDecided
    /\ TokenHolders
    /\ ExistingOrderMatches

(* release() leaves no token, found or not; the other tokens keep theirs.  *)
LEMMA ReleaseEffect ==
    ASSUME ReservationTypeOK, NEW r \in Requests, Release(r)
    PROVE  /\ aggregate' \in Int \union {Absent}
           /\ token' = [token EXCEPT ![r] = Absent]
BY DEF ReservationTypeOK, Release, Current, reservationVars

(* A granted reservation stores an integer aggregate and its own token.    *)
LEMMA ReserveEffect ==
    ASSUME ReservationTypeOK, NEW r \in Requests, NEW d \in Int,
           NEW p \in Int, Reserve(r, d, p)
    PROVE  /\ aggregate' \in Int \union {Absent}
           /\ token' = [token EXCEPT ![r] = d]
BY DEF ReservationTypeOK, Reserve, Current

(* SubmissionInv is inductive: one step per call of the handler, then the  *)
(* environment.                                                            *)
LEMMA SubmissionInductive ==
    ASSUME SubmissionInv, [Next]_vars PROVE SubmissionInv'
<1> USE DEF SubmissionInv, TypeOK, ReservationTypeOK, Request, RowStatus,
            BrokerStatus, Program, Outcomes, CallerOwnsRow, RowHasCreator,
            BrokerHasRow, RefusalDecided, TokenHolders, ExistingOrderMatches,
            AfterCreate, Cid
<1> USE DEF setting, reservationVars, orderVars, gateVars, brokerVars, handlerVars,
            Continue, Goto, Answer
<1>1. ASSUME NEW r \in Requests, CheckHalts(r) PROVE SubmissionInv'
  <2>1. CASE Continue(r, "gated")
    BY <1>1, <2>1 DEF CheckHalts
  <2>2. CASE Answer(r, "blocked")
    BY <1>1, <2>2 DEF CheckHalts
  <2> QED
    BY <1>1, <2>1, <2>2 DEF CheckHalts
<1>2. ASSUME NEW r \in Requests, CheckAdmission(r) PROVE SubmissionInv'
  <2>1. CASE Continue(r, "admitted")
    BY <1>2, <2>1 DEF CheckAdmission
  <2>2. CASE Answer(r, "blocked")
    BY <1>2, <2>2 DEF CheckAdmission
  <2> QED
    BY <1>2, <2>1, <2>2 DEF CheckAdmission
<1>3. ASSUME NEW r \in Requests, ReservePosition(r) PROVE SubmissionInv'
  <2>1. CASE Reserve(r, request[r].delta, seen[r]) /\ Continue(r, "reserved")
    <3>1. request[r].delta \in Int /\ seen[r] \in Int
      OBVIOUS
    <3>2. /\ aggregate' \in Int \union {Absent}
          /\ token' = [token EXCEPT ![r] = request[r].delta]
      BY <2>1, <3>1, ReserveEffect
    <3> QED
      BY <1>3, <2>1, <3>1, <3>2 DEF ReservePosition
  <2>2. CASE ReserveRefused(request[r].delta, seen[r]) /\ Answer(r, "blocked")
    BY <1>3, <2>2 DEF ReservePosition, ReserveRefused
  <2> QED
    BY <1>3, <2>1, <2>2 DEF ReservePosition
<1>4. ASSUME NEW r \in Requests, CheckIdempotency(r) PROVE SubmissionInv'
  <2>1. CASE row[Cid(r)] = Absent
    <3>1. TypeOK' /\ ExistingOrderMatches'
      BY <1>4, <2>1 DEF CheckIdempotency
    <3>2. CallerOwnsRow' /\ RowHasCreator' /\ BrokerHasRow'
      BY <1>4, <2>1 DEF CheckIdempotency
    <3>3. RefusalDecided' /\ TokenHolders'
      BY <1>4, <2>1 DEF CheckIdempotency
    <3> QED
      BY <3>1, <3>2, <3>3
  <2>2. CASE row[Cid(r)] # Absent
    <3>1. aggregate' \in Int \union {Absent} /\ token' = [token EXCEPT ![r] = Absent]
      BY <1>4, <2>2, ReleaseEffect DEF CheckIdempotency
    <3>2. TypeOK'
      <4>1. PICK a \in {"existing", "conflict"} : Answer(r, a)
        BY <1>4, <2>2 DEF CheckIdempotency, AnswerFromRow
      <4> QED
        BY <1>4, <2>2, <3>1, <4>1 DEF CheckIdempotency
    <3>3. CallerOwnsRow' /\ RowHasCreator' /\ BrokerHasRow'
      BY <1>4, <2>2 DEF CheckIdempotency, AnswerFromRow
    <3>4. RefusalDecided' /\ TokenHolders'
      BY <1>4, <2>2, <3>1 DEF CheckIdempotency, AnswerFromRow
    <3>5. ExistingOrderMatches'
      BY <1>4, <2>2 DEF CheckIdempotency, AnswerFromRow
    <3> QED
      BY <3>2, <3>3, <3>4, <3>5
  <2> QED
    BY <1>4, <2>1, <2>2 DEF CheckIdempotency
<1>5. ASSUME NEW r \in Requests, CheckFatFinger(r) PROVE SubmissionInv'
  <2>1. CASE Continue(r, "validated")
    BY <1>5, <2>1 DEF CheckFatFinger
  <2>2. CASE Release(r) /\ Answer(r, "blocked")
    <3>1. aggregate' \in Int \union {Absent} /\ token' = [token EXCEPT ![r] = Absent]
      BY <1>5, <2>2, ReleaseEffect DEF CheckFatFinger
    <3>2. TypeOK'
      BY <1>5, <2>2, <3>1 DEF CheckFatFinger
    <3>3. CallerOwnsRow' /\ RowHasCreator' /\ BrokerHasRow'
      BY <1>5, <2>2 DEF CheckFatFinger
    <3>4. RefusalDecided' /\ TokenHolders'
      BY <1>5, <2>2, <3>1 DEF CheckFatFinger
    <3>5. ExistingOrderMatches'
      BY <1>5, <2>2 DEF CheckFatFinger
    <3> QED
      BY <3>2, <3>3, <3>4, <3>5
  <2> QED
    BY <1>5, <2>1, <2>2 DEF CheckFatFinger
<1>6. ASSUME NEW r \in Requests, CreateOrder(r) PROVE SubmissionInv'
  <2>1. CASE row[Cid(r)] = Absent
    <3>0. /\ pc[r] = "validated" /\ pc' = [pc EXCEPT ![r] = "created"]
          /\ row' = [row EXCEPT ![Cid(r)] = r]
          /\ UNCHANGED <<dryRun, request, seen, outcome, killSwitch, breaker, broker, calls,
                         position, aggregate, token>>
      BY <1>6, <2>1 DEF CreateOrder
    <3>1. TypeOK'
      <4>1. PICK v \in {"dry_run", "pending_new"} :
               status' = [status EXCEPT ![Cid(r)] = v]
        BY <1>6, <2>1 DEF CreateOrder
      <4>2. status' \in [ClientIds -> RowStatus]
        BY <4>1
      <4>3. row' \in [ClientIds -> Requests \union {Absent}]
        BY <3>0
      <4> QED
        BY <3>0, <4>2, <4>3
    <3>2. row'[Cid(r)] = r /\ \A c \in ClientIds : c # Cid(r) => row'[c] = row[c]
      BY <3>0
    <3>3. CallerOwnsRow'
      BY <2>1, <3>0, <3>2
    <3>4. RowHasCreator' /\ BrokerHasRow'
      <4>1. RowHasCreator'
        BY <3>0, <3>2
      <4>2. BrokerHasRow'
        BY <3>0, <3>2
      <4> QED
        BY <4>1, <4>2
    <3>5. RefusalDecided' /\ TokenHolders'
      BY <3>0
    <3>6. ExistingOrderMatches'
      BY <1>6, <2>1, <3>2 DEF CreateOrder
    <3> QED
      BY <3>1, <3>3, <3>4, <3>5, <3>6
  <2>2. CASE row[Cid(r)] # Absent
    <3>1. aggregate' \in Int \union {Absent} /\ token' = [token EXCEPT ![r] = Absent]
      BY <1>6, <2>2, ReleaseEffect DEF CreateOrder
    <3>2. TypeOK'
      <4>1. PICK a \in {"existing", "conflict"} : Answer(r, a)
        BY <1>6, <2>2 DEF CreateOrder, AnswerFromRow
      <4> QED
        BY <1>6, <2>2, <3>1, <4>1 DEF CreateOrder
    <3>3. CallerOwnsRow' /\ RowHasCreator' /\ BrokerHasRow'
      BY <1>6, <2>2 DEF CreateOrder, AnswerFromRow
    <3>4. RefusalDecided' /\ TokenHolders'
      BY <1>6, <2>2, <3>1 DEF CreateOrder, AnswerFromRow
    <3>5. ExistingOrderMatches'
      BY <1>6, <2>2 DEF CreateOrder, AnswerFromRow
    <3> QED
      BY <3>2, <3>3, <3>4, <3>5
  <2> QED
    BY <1>6, <2>1, <2>2 DEF CreateOrder
<1>7. ASSUME NEW r \in Requests, DatabaseError(r) PROVE SubmissionInv'
  <2>1. aggregate' \in Int \union {Absent} /\ token' = [token EXCEPT ![r] = Absent]
    BY <1>7, ReleaseEffect DEF DatabaseError
  <2> QED
    BY <1>7, <2>1 DEF DatabaseError
<1>8. ASSUME NEW r \in Requests, SkipBroker(r) PROVE SubmissionInv'
  <2>1. aggregate' \in Int \union {Absent} /\ token' = [token EXCEPT ![r] = Absent]
    BY <1>8, ReleaseEffect DEF SkipBroker
  <2> QED
    BY <1>8, <2>1 DEF SkipBroker
<1>9. ASSUME NEW r \in Requests, BrokerAccepts(r) PROVE SubmissionInv'
  BY <1>9 DEF BrokerAccepts, CallsBroker
<1>10. ASSUME NEW r \in Requests, BrokerRefuses(r) PROVE SubmissionInv'
  BY <1>10 DEF BrokerRefuses, CallsBroker
<1>11. ASSUME NEW r \in Requests, BrokerReplyLost(r) PROVE SubmissionInv'
  BY <1>11 DEF BrokerReplyLost, CallsBroker
<1>12. ASSUME NEW r \in Requests, ConfirmReservation(r) PROVE SubmissionInv'
  BY <1>12 DEF ConfirmReservation, Confirm
<1>13. ASSUME NEW r \in Requests, RecordAcceptance(r) PROVE SubmissionInv'
  BY <1>13 DEF RecordAcceptance
<1>14. ASSUME NEW r \in Requests, ReleaseRefused(r) PROVE SubmissionInv'
  <2>1. aggregate' \in Int \union {Absent} /\ token' = [token EXCEPT ![r] = Absent]
    BY <1>14, ReleaseEffect DEF ReleaseRefused
  <2> QED
    BY <1>14, <2>1 DEF ReleaseRefused
<1>15. ASSUME NEW r \in Requests, RecordRefusal(r) PROVE SubmissionInv'
  BY <1>15 DEF RecordRefusal
<1>16. ASSUME NEW r \in Requests, Crash(r) PROVE SubmissionInv'
  BY <1>16 DEF Crash
<1>17. ASSUME NEW r \in Requests, TokenExpires(r) PROVE SubmissionInv'
  BY <1>17 DEF TokenExpires, ExpireToken
<1>18. ASSUME NEW c \in ClientIds, BrokerFills(c) \/ BrokerCloses(c)
       PROVE SubmissionInv'
  <2>1. row[c] \in Requests
    BY <1>18 DEF BrokerFills, BrokerCloses
  <2>2. request[row[c]].delta \in Int
    BY <2>1
  <2> QED
    BY <1>18, <2>2 DEF BrokerFills, BrokerCloses
<1>19. CASE ChangeKillSwitch \/ ChangeBreaker \/ RedisRestart
  BY <1>19 DEF ChangeKillSwitch, ChangeBreaker, RedisRestart, LoseKeys
<1>20. ASSUME NEW r \in Requests, ReadPosition(r) PROVE SubmissionInv'
  <2>1. CASE Continue(r, "sized")
    BY <1>20, <2>1 DEF ReadPosition
  <2>2. CASE Answer(r, "error") /\ UNCHANGED seen
    BY <1>20, <2>2 DEF ReadPosition
  <2> QED
    BY <1>20, <2>1, <2>2 DEF ReadPosition
<1>21. CASE UNCHANGED vars
  BY <1>21 DEF vars
<1>22. ASSUME NEW r \in Requests, CallRaises(r) PROVE SubmissionInv'
  <2>1. PICK v : token' = [token EXCEPT ![r] = v] /\ v \in Int \union {Absent}
                 /\ aggregate' \in Int \union {Absent}
    <3>1. request[r].delta \in Int /\ seen[r] \in Int
      OBVIOUS
    <3>2. CASE UNCHANGED reservationVars
      <4>1. token' = [token EXCEPT ![r] = token[r]]
        BY <3>2
      <4> QED
        BY <3>2, <4>1
    <3>3. CASE Reserve(r, request[r].delta, seen[r])
      BY <3>1, <3>3, ReserveEffect
    <3>4. CASE Release(r)
      BY <3>4, ReleaseEffect
    <3>5. CASE Confirm(r)
      BY <3>5 DEF Confirm
    <3> QED
      BY <1>22, <3>2, <3>3, <3>4, <3>5 DEF CallRaises
  <2>2. /\ pc[r] \in {"sized", "reserved", "checked", "validated", "created",
                      "accepted", "refused", "released"}
        /\ pc' = [pc EXCEPT ![r] = "done"] /\ outcome' = [outcome EXCEPT ![r] = "raised"]
        /\ seen' = [seen EXCEPT ![r] = 0]
        /\ UNCHANGED <<dryRun, request, row, status, killSwitch, breaker, broker, position, calls>>
    BY <1>22 DEF CallRaises
  <2>3. TypeOK'
    BY <2>1, <2>2
  <2>4. CallerOwnsRow' /\ RowHasCreator' /\ BrokerHasRow'
    BY <2>2
  <2>5. RefusalDecided' /\ TokenHolders'
    BY <2>1, <2>2
  <2>6. ExistingOrderMatches'
    BY <2>2
  <2> QED
    BY <2>3, <2>4, <2>5, <2>6
<1> QED
  BY <1>1, <1>2, <1>3, <1>4, <1>5, <1>6, <1>7, <1>8, <1>9, <1>10, <1>11, <1>12, <1>13, <1>14, <1>15, <1>16, <1>17, <1>18, <1>19, <1>20,
     <1>21, <1>22
     DEF Next, Handler

(* The inductive invariant holds in every reachable state.                 *)
LEMMA SubmissionInvariant == Spec => []SubmissionInv
<1>1. Init => SubmissionInv
  BY DEF Init, ReservationInit, SubmissionInv, TypeOK, ReservationTypeOK,
         Request, RowStatus, BrokerStatus, Program, Outcomes, CallerOwnsRow,
         RowHasCreator, BrokerHasRow, RefusalDecided, TokenHolders,
         ExistingOrderMatches, AfterCreate
<1>2. SubmissionInv /\ [Next]_vars => SubmissionInv'
  BY SubmissionInductive
<1> QED
  BY <1>1, <1>2, PTL DEF Spec

(* The type invariant of the handler, the orders table and the reservation *)
(* keys (submit_order, position_reservation.py).                           *)
THEOREM TypeCorrect == Spec => []TypeOK
BY SubmissionInvariant, PTL DEF SubmissionInv

(* At most one of the requests that carry a client_order_id calls          *)
(* AlpacaExecutor.submit_order, whatever crashes, expires or is lost: both *)
(* would own the one row of that id.                                       *)
THEOREM SubmittedAtMostOnce == Spec => []AtMostOneSubmission
<1>1. SubmissionInv => AtMostOneSubmission
  BY DEF SubmissionInv, TypeOK, CallerOwnsRow, AtMostOneSubmission, Cid
<1> QED
  BY <1>1, SubmissionInvariant, PTL

(* An idempotent reply is given only for the same order, on gate 9's path  *)
(* and on create_order's UniqueViolation path.                             *)
THEOREM IdempotentReplyMatches == Spec => []ExistingOrderMatches
BY SubmissionInvariant, PTL DEF SubmissionInv

(* Every exit of submit_order gives its reservation token back, whatever   *)
(* the other requests do, but for the exits through a call that raised     *)
(* where no branch undoes the reservation (CallRaises, answered 500).      *)
THEOREM TokensReturned == Spec => []AnsweredHoldsNoToken
<1>1. SubmissionInv => AnsweredHoldsNoToken
  BY DEF SubmissionInv, TokenHolders, AnsweredHoldsNoToken
<1> QED
  BY <1>1, SubmissionInvariant, PTL

-----------------------------------------------------------------------------
(* A broker that answers.                                                  *)

(* A request has no answer before a refusal or its end.                    *)
Unanswered ==
    \A r \in Requests :
        pc[r] \notin {"refused", "released", "done", "crashed"} => outcome[r] = "none"

(* The creator of a live order's row is between the broker's answer and    *)
(* its own, and stays there if it stops.                                   *)
LiveOrderAccepted ==
    \A c \in ClientIds :
        broker[c] # "none" =>
            /\ row[c] \in Requests
            /\ pc[row[c]] \in {"accepted", "confirmed", "done", "crashed"}
            /\ outcome[row[c]] \in {"none", "submitted", "raised"}

AnsweredInv == Unanswered /\ LiveOrderAccepted

(* AnsweredInv is inductive as long as no reply of the broker is lost.     *)
LEMMA AnsweredInductive ==
    ASSUME ~LostReplies, SubmissionInv, AnsweredInv, [Next]_vars PROVE AnsweredInv'
<1> USE DEF SubmissionInv, TypeOK, Request, Program, Outcomes, BrokerStatus, CallerOwnsRow,
            RowHasCreator, BrokerHasRow, AfterCreate, Cid, AnsweredInv, Unanswered,
            LiveOrderAccepted
<1> USE DEF setting, orderVars, gateVars, brokerVars, handlerVars
(* A step of a request that has no live order and does not get one.        *)
<1>a. ASSUME NEW r \in Requests, NEW label \in Program, NEW answer \in Outcomes,
             pc[r] \notin {"accepted", "confirmed", "done", "crashed"},
             UNCHANGED <<row, broker, request>>,
             pc' = [pc EXCEPT ![r] = label],
             outcome' = [outcome EXCEPT ![r] = answer],
             label \notin {"refused", "released", "done", "crashed"} => answer = "none"
      PROVE  AnsweredInv'
  BY <1>a
<1>b. ASSUME NEW r \in Requests, NEW label \in Program, Continue(r, label),
             pc[r] \notin {"refused", "released", "accepted", "confirmed", "done", "crashed"},
             UNCHANGED <<row, broker, request>>
      PROVE  AnsweredInv'
  <2>1. outcome' = [outcome EXCEPT ![r] = outcome[r]] /\ outcome[r] = "none"
    BY <1>b DEF Continue, Goto
  <2> QED
    BY <1>a, <1>b, <2>1 DEF Continue, Goto
<1>c. ASSUME NEW r \in Requests, NEW answer \in Outcomes, Answer(r, answer),
             pc[r] \notin {"refused", "released", "accepted", "confirmed", "done", "crashed"},
             UNCHANGED <<row, broker, request>>
      PROVE  AnsweredInv'
  BY <1>a, <1>c DEF Answer, Goto
<1>1. ASSUME NEW r \in Requests, CheckHalts(r) \/ CheckAdmission(r) PROVE AnsweredInv'
  BY <1>1, <1>b, <1>c DEF CheckHalts, CheckAdmission
<1>2. ASSUME NEW r \in Requests, ReadPosition(r) \/ ReservePosition(r) PROVE AnsweredInv'
  BY <1>2, <1>b, <1>c DEF ReadPosition, ReservePosition
<1>d. ASSUME NEW r \in Requests PROVE AnswerFromRow(r) => Answer(r, "existing") \/ Answer(r, "conflict")
  BY DEF AnswerFromRow
<1>3. ASSUME NEW r \in Requests, CheckIdempotency(r) PROVE AnsweredInv'
  BY <1>3, <1>b, <1>c, <1>d DEF CheckIdempotency
<1>4. ASSUME NEW r \in Requests, CheckFatFinger(r) \/ DatabaseError(r) \/ SkipBroker(r)
      PROVE  AnsweredInv'
  <2>1. CASE CheckFatFinger(r)
    BY <2>1, <1>b, <1>c DEF CheckFatFinger
  <2>2. CASE DatabaseError(r)
    BY <2>2, <1>c DEF DatabaseError
  <2>3. CASE SkipBroker(r)
    <3>1. Answer(r, "dry_run") \/ Answer(r, "error")
      BY <2>3 DEF SkipBroker
    <3> QED
      BY <2>3, <3>1, <1>c DEF SkipBroker
  <2> QED
    BY <1>4, <2>1, <2>2, <2>3
<1>5. ASSUME NEW r \in Requests, CreateOrder(r) PROVE AnsweredInv'
  <2>1. CASE row[Cid(r)] = Absent
    <3>1. /\ row' = [row EXCEPT ![Cid(r)] = r]
          /\ pc' = [pc EXCEPT ![r] = "created"]
          /\ UNCHANGED <<outcome, broker, request>>
          /\ pc[r] = "validated"
      BY <1>5, <2>1 DEF CreateOrder, Continue, Goto
    <3>2. broker[Cid(r)] = "none" /\ outcome[r] = "none"
      BY <2>1, <3>1
    <3>3. \A c \in ClientIds : broker[c] # "none" => row'[c] = row[c] /\ row[c] # r
      BY <3>1, <3>2
    <3> QED
      BY <3>1, <3>2, <3>3
  <2>2. CASE row[Cid(r)] # Absent
    BY <1>5, <2>2, <1>c, <1>d DEF CreateOrder
  <2> QED
    BY <2>1, <2>2
<1>6. ASSUME NEW r \in Requests, BrokerAccepts(r) PROVE AnsweredInv'
  BY <1>6 DEF BrokerAccepts, CallsBroker, Continue, Goto
<1>7. ASSUME NEW r \in Requests, BrokerRefuses(r) PROVE AnsweredInv'
  BY <1>7, <1>a DEF BrokerRefuses, CallsBroker, Goto
<1>8. ASSUME NEW r \in Requests, ConfirmReservation(r) \/ RecordAcceptance(r)
      PROVE  AnsweredInv'
  <2>1. CASE ConfirmReservation(r)
    BY <2>1 DEF ConfirmReservation, Continue, Goto
  <2>2. CASE RecordAcceptance(r)
    <3>1. /\ pc[r] = "confirmed" /\ pc' = [pc EXCEPT ![r] = "done"]
          /\ outcome' = [outcome EXCEPT ![r] = "submitted"] /\ UNCHANGED <<row, broker, request>>
      BY <2>2 DEF RecordAcceptance, Answer, Goto
    <3> QED
      BY <3>1
  <2> QED
    BY <1>8, <2>1, <2>2
<1>9. ASSUME NEW r \in Requests, ReleaseRefused(r) \/ RecordRefusal(r) PROVE AnsweredInv'
  <2>1. PICK label \in {"done", "released"} : pc' = [pc EXCEPT ![r] = label]
    BY <1>9 DEF ReleaseRefused, RecordRefusal, Continue, Goto
  <2>2. /\ pc[r] \in {"refused", "released"}
        /\ UNCHANGED <<row, broker, request, outcome>>
    BY <1>9 DEF ReleaseRefused, RecordRefusal, Continue, Goto
  <2> QED
    BY <2>1, <2>2
<1>10. ASSUME NEW r \in Requests, Crash(r) PROVE AnsweredInv'
  BY <1>10 DEF Crash, Goto
<1>11. ASSUME NEW r \in Requests, TokenExpires(r) PROVE AnsweredInv'
  BY <1>11 DEF TokenExpires
<1>12. ASSUME NEW c \in ClientIds, BrokerFills(c) \/ BrokerCloses(c) PROVE AnsweredInv'
  BY <1>12 DEF BrokerFills, BrokerCloses
<1>13. CASE ChangeKillSwitch \/ ChangeBreaker \/ RedisRestart
  BY <1>13 DEF ChangeKillSwitch, ChangeBreaker, RedisRestart
<1>14. CASE UNCHANGED vars
  BY <1>14 DEF vars
<1>15. ASSUME NEW r \in Requests PROVE ~BrokerReplyLost(r)
  BY Zenon DEF BrokerReplyLost
<1>16. ASSUME NEW r \in Requests, CallRaises(r) PROVE AnsweredInv'
  <2>1. /\ pc' = [pc EXCEPT ![r] = "done"] /\ outcome' = [outcome EXCEPT ![r] = "raised"]
        /\ UNCHANGED <<row, broker, request>>
    BY <1>16 DEF CallRaises, Answer, Goto
  <2> QED
    BY <2>1
<1> QED
  BY <1>1, <1>2, <1>3, <1>4, <1>5, <1>6, <1>7, <1>8, <1>9, <1>10, <1>11, <1>12, <1>13, <1>14,
     <1>15, <1>16
     DEF Next, Handler

(* "CRITICAL: Once broker accepts, NEVER release reservation": it holds    *)
(* for any number of requests and all other faults as long as the broker's *)
(* replies arrive, and the run submit_lost_reply shows that it needs that. *)
THEOREM AcceptedOrdersKeepReservation == ~LostReplies => (Spec => []LiveOrderNeverReleased)
<1> SUFFICES ASSUME ~LostReplies PROVE Spec => []LiveOrderNeverReleased
  OBVIOUS
<1>1. Init => AnsweredInv
  BY DEF Init, AnsweredInv, Unanswered, LiveOrderAccepted
<1>2. SubmissionInv /\ AnsweredInv /\ [Next]_vars => AnsweredInv'
  BY AnsweredInductive
<1>3. AnsweredInv => LiveOrderNeverReleased
  BY DEF AnsweredInv, LiveOrderAccepted, LiveOrderNeverReleased
<1> QED
  BY <1>1, <1>2, <1>3, SubmissionInvariant, PTL DEF Spec
-----------------------------------------------------------------------------
(* The position limit, with buy orders only.                               *)

(* The number of shares a set of requests buys.                            *)
Count(req, S) == Cardinality(Shares(req, S))

(* It grows with the set, and by an order's own quantity when the order is *)
(* added.                                                                  *)
LEMMA SharesCount ==
    ASSUME NEW q \in [Requests -> Request], Deltas \subseteq Nat,
           NEW S \in SUBSET Requests, NEW T \in SUBSET Requests, S \subseteq T
    PROVE  /\ Count(q, S) \in Nat
           /\ Count(q, S) <= Count(q, T)
           /\ \A r \in Requests \ S : Count(q, S \union {r}) = Count(q, S) + q[r].delta
<1>1. ASSUME NEW r \in Requests
      PROVE  /\ IsFiniteSet({r} \X (1 .. q[r].delta))
             /\ Cardinality({r} \X (1 .. q[r].delta)) = q[r].delta
  <2>1. q[r].delta \in Nat
    BY DEF Request
  <2>2. IsFiniteSet(1 .. q[r].delta) /\ Cardinality(1 .. q[r].delta) = q[r].delta
    <3>1. ASSUME NEW n \in Nat PROVE IsFiniteSet(1 .. n) /\ Cardinality(1 .. n) = n
      <4>1. Cardinality(1 .. n) = IF 1 > n THEN 0 ELSE n - 1 + 1
        BY FS_Interval
      <4> QED
        BY <4>1, FS_Interval
    <3> QED
      BY <2>1, <3>1
  <2>3. IsFiniteSet({r}) /\ Cardinality({r}) = 1
    BY FS_Singleton
  <2>4. /\ IsFiniteSet({r} \X (1 .. q[r].delta))
        /\ Cardinality({r} \X (1 .. q[r].delta)) = Cardinality({r}) * Cardinality(1 .. q[r].delta)
    BY <2>2, <2>3, FS_Product
  <2> QED
    BY <2>1, <2>2, <2>3, <2>4
<1>2. ASSUME NEW U \in SUBSET Requests PROVE IsFiniteSet(Shares(q, U))
  <2> DEFINE parts == {{r} \X (1 .. q[r].delta) : r \in U}
  <2>1. IsFiniteSet(U)
    BY FS_Subset, RequestsAssumption
  <2>2. IsFiniteSet(parts)
    <3> DEFINE f == [r \in U |-> {r} \X (1 .. q[r].delta)]
    <3>1. f \in [U -> parts] /\ \A p \in parts : \E r \in U : f[r] = p
      OBVIOUS
    <3> HIDE DEF f, parts
    <3>2. f \in Surjection(U, parts)
      BY <3>1 DEF Surjection
    <3> QED
      BY <2>1, <3>2, FS_Surjection
  <2>3. \A p \in parts : IsFiniteSet(p)
    BY <1>1
  <2> QED
    BY <2>2, <2>3, FS_UNION DEF Shares
<1>3. Count(q, S) \in Nat
  BY <1>2, FS_CardinalityType DEF Count
<1>4. Count(q, S) <= Count(q, T)
  <2>1. Shares(q, S) \in SUBSET Shares(q, T)
    BY DEF Shares
  <2> QED
    BY <1>2, <2>1, FS_Subset DEF Count
<1>5. ASSUME NEW r \in Requests \ S PROVE Count(q, S \union {r}) = Count(q, S) + q[r].delta
  <2> DEFINE own == {r} \X (1 .. q[r].delta)
  <2>1. Shares(q, S \union {r}) = Shares(q, S) \union own
    BY DEF Shares
  <2>2. Shares(q, S) \intersect own = {}
    BY DEF Shares
  <2>3. IsFiniteSet(Shares(q, S)) /\ IsFiniteSet(own) /\ Cardinality(own) = q[r].delta
    BY <1>1, <1>2
  <2> HIDE DEF own
  <2>4. Cardinality(Shares(q, S) \union own)
            = Cardinality(Shares(q, S)) + Cardinality(own) - Cardinality({})
    BY <2>2, <2>3, FS_Union
  <2>5. Cardinality({}) = 0
    BY FS_EmptySet
  <2>6. q[r].delta \in Nat
    BY DEF Request
  <2>7. Count(q, S \union {r}) = Count(q, S) + Cardinality(own) - Cardinality({})
    BY <2>1, <2>4, Zenon DEF Count
  <2> QED
    BY <1>3, <2>3, <2>5, <2>6, <2>7
<1> QED
  BY <1>3, <1>4, <1>5

(* The handler between a granted reservation and its return: it will       *)
(* release the reservation or send the order, with or without its token.   *)
Reserved == {"reserved", "checked", "validated", "created", "refused"}

(* The requests the aggregate still has to cover.                          *)
Committed ==
    {r \in Requests :
        \/ BrokerOrder(r) = "live"
        \/ BrokerOrder(r) = "none" /\ (token[r] # Absent \/ pc[r] \in Reserved)}

(* A token holds the quantity of its request.                              *)
TokenMatches ==
    \A r \in Requests : token[r] # Absent => token[r] = request[r].delta

(* The row of a client_order_id belongs to a request that carries it.      *)
RowOfItsId ==
    \A c \in ClientIds : row[c] # Absent => Cid(row[c]) = c

(* Without an aggregate nothing has been reserved yet.                     *)
Unreserved ==
    aggregate = Absent =>
        /\ position = StartPosition
        /\ \A c \in ClientIds : broker[c] = "none"
        /\ \A r \in Requests :
            /\ token[r] = Absent
            /\ pc[r] \notin Reserved \union AfterCreate
            /\ pc[r] = "sized" => seen[r] = StartPosition

(* The aggregate covers what is held and what is committed, in the limit.  *)
Covered ==
    aggregate # Absent =>
        /\ position + Count(request, Committed) <= aggregate
        /\ aggregate <= MaxLimit

CoverInv == TokenMatches /\ RowOfItsId /\ Unreserved /\ Covered /\ StartPosition <= position

OneSided == Deltas \subseteq Nat /\ ~LostReplies /\ ~RedisRestarts

(* A step after which no request is committed that was not before.         *)
LEMMA CoveredAsBefore ==
    ASSUME OneSided, SubmissionInv, Covered, Committed' \subseteq Committed,
           UNCHANGED <<request, position, aggregate>>
    PROVE  Covered'
<1>1. request \in [Requests -> Request] /\ position \in Int /\ aggregate \in Int \union {Absent}
  BY DEF SubmissionInv, TypeOK, ReservationTypeOK
<1>2. Committed \in SUBSET Requests /\ Committed' \in SUBSET Requests
  BY DEF Committed
<1>3. /\ Count(request, Committed) \in Nat
      /\ Count(request, Committed') \in Nat
      /\ Count(request, Committed') <= Count(request, Committed)
  BY <1>1, <1>2, SharesCount DEF OneSided
<1>4. request' = request /\ position' = position /\ aggregate' = aggregate
  OBVIOUS
<1> QED
  BY <1>1, <1>3, <1>4 DEF Covered

(* A committed request leaves, and its quantity goes from the aggregate or *)
(* into the position.                                                      *)
LEMMA CoveredWithout ==
    ASSUME OneSided, SubmissionInv, Covered, NEW r \in Committed,
           Committed' = Committed \ {r}, UNCHANGED request, aggregate # Absent,
           \/ position' = position /\ aggregate' = aggregate - request[r].delta
           \/ position' = position + request[r].delta /\ aggregate' = aggregate
    PROVE  Covered'
<1>1. request \in [Requests -> Request] /\ position \in Int /\ aggregate \in Int \union {Absent}
  BY DEF SubmissionInv, TypeOK, ReservationTypeOK
<1>2. r \in Requests /\ Committed \ {r} \in SUBSET Requests /\ request[r].delta \in Nat
  BY <1>1 DEF Committed, OneSided, Request
<1>3. /\ Count(request, Committed \ {r}) \in Nat
      /\ Count(request, (Committed \ {r}) \union {r})
            = Count(request, Committed \ {r}) + request[r].delta
  BY <1>1, <1>2, SharesCount DEF OneSided
<1>4. (Committed \ {r}) \union {r} = Committed
  OBVIOUS
<1>5. Count(request, Committed) = Count(request', Committed') + request[r].delta
  BY <1>3, <1>4
<1> QED
  BY <1>1, <1>2, <1>3, <1>5 DEF Covered

(* A reservation that is granted.                                          *)
LEMMA CoveredWith ==
    ASSUME OneSided, SubmissionInv, CoverInv, NEW r \in Requests \ Committed,
           Committed' = Committed \union {r}, UNCHANGED <<request, position>>,
           aggregate = Absent => Committed = {} /\ seen[r] = StartPosition,
           Reserve(r, request[r].delta, seen[r])
    PROVE  Covered'
<1>1. /\ request \in [Requests -> Request] /\ position \in Int /\ aggregate \in Int \union {Absent}
      /\ seen[r] \in Int
  BY DEF SubmissionInv, TypeOK, ReservationTypeOK
<1>2. Committed \in SUBSET Requests /\ request[r].delta \in Nat
  BY <1>1 DEF Committed, OneSided, Request
<1>3. /\ Count(request, Committed) \in Nat
      /\ Count(request, Committed \union {r}) = Count(request, Committed) + request[r].delta
  BY <1>1, <1>2, SharesCount DEF OneSided
<1>4. Count(request', Committed') = Count(request, Committed) + request[r].delta
  BY <1>3
<1>5. aggregate' = Current(seen[r]) + request[r].delta /\ WithinLimit(Current(seen[r]) + request[r].delta)
  BY DEF Reserve
<1>6. Current(seen[r]) \in Int
  BY <1>1 DEF Current
<1>7. aggregate' <= MaxLimit
  BY <1>2, <1>5, <1>6 DEF WithinLimit, Magnitude
<1>8. position + Count(request, Committed) <= Current(seen[r])
  <2>1. CASE aggregate = Absent
    <3>1. Shares(request, {}) = {}
      BY DEF Shares
    <3>2. Count(request, Committed) = 0
      BY <2>1, <3>1, FS_EmptySet DEF Count
    <3> QED
      BY <1>1, <2>1, <3>2 DEF CoverInv, Unreserved, Current
  <2>2. CASE aggregate # Absent
    <3>1. Current(seen[r]) = aggregate
      BY <2>2 DEF Current
    <3> QED
      BY <2>2, <3>1 DEF CoverInv, Covered
  <2> QED
    BY <2>1, <2>2
<1> QED
  BY <1>1, <1>2, <1>3, <1>4, <1>5, <1>6, <1>7, <1>8 DEF Covered

(* CoverInv is inductive: the aggregate changes with a reservation that is *)
(* granted or released, and what it covers with those and the broker.      *)
LEMMA CoverInductive ==
    ASSUME OneSided, SubmissionInv, AnsweredInv, CoverInv, [Next]_vars PROVE CoverInv'
<1>0. /\ request \in [Requests -> Request] /\ pc \in [Requests -> Program]
      /\ token \in [Requests -> Int \union {Absent}] /\ seen \in [Requests -> Int]
      /\ row \in [ClientIds -> Requests \union {Absent}] /\ broker \in [ClientIds -> BrokerStatus]
      /\ position \in Int /\ aggregate \in Int \union {Absent} /\ Deltas \subseteq Nat
  BY DEF SubmissionInv, TypeOK, ReservationTypeOK, OneSided
<1>k. \A s \in Requests : Cid(s) \in ClientIds /\ request[s].delta \in Nat
  BY <1>0 DEF Cid, Request
<1> USE DEF Cid, setting, orderVars, gateVars, brokerVars, handlerVars, reservationVars
<1>u. ASSUME UNCHANGED <<request, row, broker>>
      PROVE  \A s \in Requests : BrokerOrder(s)' = BrokerOrder(s)
  BY <1>u DEF BrokerOrder
(* A step of one request that leaves the reservation and the broker alone. *)
<1>a. ASSUME NEW r \in Requests, NEW label \in Program, NEW v \in Int,
             UNCHANGED <<request, row, broker, position, aggregate, token>>,
             pc' = [pc EXCEPT ![r] = label], seen' = [seen EXCEPT ![r] = v],
             label \in Reserved => pc[r] \in Reserved,
             label \in AfterCreate => pc[r] \in Reserved \union AfterCreate,
             label = "sized" => v = position
      PROVE  CoverInv'
  <2>1. Committed' \subseteq Committed
    BY <1>0, <1>a, <1>u DEF Committed
  <2>2. Covered'
    BY <1>a, <2>1, CoveredAsBefore DEF CoverInv
  <2> QED
    BY <1>0, <1>a, <2>2 DEF CoverInv, TokenMatches, RowOfItsId, Unreserved
(* The same with release().                                                *)
<1>b. ASSUME NEW r \in Requests, NEW label \in {"done", "released"}, NEW v \in Int, Release(r),
             UNCHANGED <<request, row, broker, position>>, seen' = [seen EXCEPT ![r] = v],
             pc' = [pc EXCEPT ![r] = label], pc[r] \in Reserved
      PROVE  CoverInv'
  <2>1. CASE token[r] = Absent
    <3>1. UNCHANGED <<aggregate, token>>
      BY <2>1, <1>b DEF Release
    <3>2. label \in Program /\ label \notin Reserved /\ label # "sized"
      BY DEF Program, Reserved
    <3> QED
      BY <1>a, <1>b, <3>1, <3>2
  <2>2. CASE token[r] # Absent
    <3>1. aggregate # Absent /\ token[r] = request[r].delta
      BY <2>2 DEF CoverInv, Unreserved, TokenMatches
    <3>2. aggregate' = aggregate - request[r].delta /\ token' = [token EXCEPT ![r] = Absent]
      BY <1>b, <2>2, <3>1 DEF Release, Current
    <3>3. BrokerOrder(r) = "none"
      BY <1>0, <1>b, <1>k DEF BrokerOrder, AnsweredInv, LiveOrderAccepted, Reserved
    <3>4. r \in Committed
      BY <2>2, <3>3 DEF Committed
    <3>5. Committed' = Committed \ {r}
      BY <1>0, <1>b, <1>u, <3>2, <3>3 DEF Committed, Reserved
    <3>6. Covered'
      BY <1>b, <3>1, <3>2, <3>4, <3>5, CoveredWithout DEF CoverInv
    <3>7. aggregate' # Absent
      BY <1>0, <1>k, <3>1, <3>2
    <3> QED
      BY <1>0, <1>b, <3>2, <3>6, <3>7 DEF CoverInv, TokenMatches, RowOfItsId, Unreserved
  <2> QED
    BY <2>1, <2>2
<1>c. ASSUME NEW r \in Requests, NEW answer, Answer(r, answer), pc[r] \in Reserved, Release(r),
             UNCHANGED <<request, row, broker, position, seen>>
      PROVE  CoverInv'
  <2>1. seen' = [seen EXCEPT ![r] = seen[r]] /\ seen[r] \in Int
    BY <1>0, <1>c
  <2> QED
    BY <1>b, <1>c, <2>1 DEF Answer, Goto
<1>d. ASSUME NEW r \in Requests, NEW label \in Program, Continue(r, label),
             UNCHANGED <<request, row, broker, position, seen, aggregate, token>>,
             label \in Reserved => pc[r] \in Reserved,
             label \in AfterCreate => pc[r] \in Reserved \union AfterCreate,
             label # "sized"
      PROVE  CoverInv'
  <2>1. seen' = [seen EXCEPT ![r] = seen[r]] /\ seen[r] \in Int
    BY <1>0, <1>d
  <2> QED
    BY <1>a, <1>d, <2>1 DEF Continue, Goto
<1>e. ASSUME NEW r \in Requests, NEW answer, Answer(r, answer),
             UNCHANGED <<request, row, broker, position, seen, aggregate, token>>
      PROVE  CoverInv'
  <2>1. seen' = [seen EXCEPT ![r] = seen[r]] /\ seen[r] \in Int /\ pc' = [pc EXCEPT ![r] = "done"]
    BY <1>0, <1>e DEF Answer, Goto
  <2>2. "done" \in Program \ (Reserved \union AfterCreate)
    BY DEF Program, Reserved, AfterCreate
  <2> QED
    BY <1>a, <1>e, <2>1, <2>2
<1>f. /\ {"gated", "admitted", "checked", "validated", "refused", "confirmed", "crashed"} \subseteq Program
      /\ {"gated", "admitted", "crashed"} \intersect (Reserved \union AfterCreate) = {}
      /\ {"reserved", "checked", "validated", "created", "refused"} = Reserved
      /\ "confirmed" \notin Reserved /\ {"accepted", "confirmed"} \subseteq AfterCreate
  BY DEF Program, Reserved, AfterCreate
<1>1. ASSUME NEW r \in Requests, CheckHalts(r) \/ CheckAdmission(r) PROVE CoverInv'
  BY <1>1, <1>d, <1>e, <1>f DEF CheckHalts, CheckAdmission
<1>2. ASSUME NEW r \in Requests, ReadPosition(r) PROVE CoverInv'
  <2>1. CASE Answer(r, "error") /\ UNCHANGED seen
    BY <1>2, <2>1, <1>e DEF ReadPosition
  <2>2. CASE Continue(r, "sized") /\ seen' = [seen EXCEPT ![r] = position]
    <3>1. "sized" \in Program \ (Reserved \union AfterCreate)
      BY DEF Program, Reserved, AfterCreate
    <3> QED
      BY <1>0, <1>2, <2>2, <1>a, <3>1 DEF ReadPosition, Continue, Goto
  <2> QED
    BY <1>2, <2>1, <2>2 DEF ReadPosition
(* reserve() is granted, and the handler goes on or ends.                  *)
<1>g. ASSUME NEW r \in Requests, NEW label \in {"reserved", "done"}, pc[r] = "sized",
             Reserve(r, request[r].delta, seen[r]), pc' = [pc EXCEPT ![r] = label],
             UNCHANGED <<request, row, broker, position>>, seen' = [seen EXCEPT ![r] = 0]
      PROVE  CoverInv'
  <2>0. token[r] = Absent
    BY <1>g DEF SubmissionInv, TokenHolders
  <2>1. token' = [token EXCEPT ![r] = request[r].delta]
    BY <1>g DEF Reserve
  <2>2. BrokerOrder(r) = "none"
    BY <1>0, <1>k, <1>g DEF BrokerOrder, AnsweredInv, LiveOrderAccepted
  <2>3. r \notin Committed
    BY <1>g, <2>0, <2>2 DEF Committed, Reserved
  <2>4. Committed' = Committed \union {r}
    <3>1. request[r].delta # Absent
      BY <1>k
    <3> QED
      BY <1>0, <1>u, <1>g, <2>1, <2>2, <3>1 DEF Committed, Reserved
  <2>5. ASSUME aggregate = Absent PROVE Committed = {} /\ seen[r] = StartPosition
    BY <1>k, <1>g, <2>5 DEF CoverInv, Unreserved, Committed, BrokerOrder
  <2>6. Covered'
    BY <1>g, <2>3, <2>4, <2>5, CoveredWith
  <2>7. aggregate' # Absent
    BY <1>0, <1>k, <1>g DEF Reserve, Current
  <2> QED
    BY <1>0, <1>g, <2>1, <2>6, <2>7 DEF CoverInv, TokenMatches, RowOfItsId, Unreserved
(* confirm() after the broker's answer, and the handler goes on or ends.   *)
<1>h. ASSUME NEW r \in Requests, NEW label \in {"confirmed", "done"}, pc[r] = "accepted",
             Confirm(r), pc' = [pc EXCEPT ![r] = label], NEW v \in Int,
             UNCHANGED <<request, row, broker, position>>, seen' = [seen EXCEPT ![r] = v]
      PROVE  CoverInv'
  <2>1. token' = [token EXCEPT ![r] = Absent] /\ aggregate' = aggregate
    BY <1>h DEF Confirm
  <2>2. Committed' \subseteq Committed
    BY <1>0, <1>f, <1>u, <1>h, <2>1 DEF Committed, Reserved
  <2>3. Covered'
    BY <1>h, <2>1, <2>2, CoveredAsBefore DEF CoverInv
  <2> QED
    BY <1>0, <1>f, <1>h, <2>1, <2>3 DEF CoverInv, TokenMatches, RowOfItsId, Unreserved
<1>3. ASSUME NEW r \in Requests, ReservePosition(r) PROVE CoverInv'
  <2>0. /\ pc[r] = "sized" /\ token[r] = Absent /\ UNCHANGED <<request, row, broker, position>>
        /\ seen' = [seen EXCEPT ![r] = 0]
    BY <1>3 DEF ReservePosition, SubmissionInv, TokenHolders
  <2>1. CASE ReserveRefused(request[r].delta, seen[r]) /\ Answer(r, "blocked")
    <3>1. "done" \in Program \ (Reserved \union AfterCreate) /\ "done" # "sized"
      BY DEF Program, Reserved, AfterCreate
    <3>2. UNCHANGED <<aggregate, token>> /\ pc' = [pc EXCEPT ![r] = "done"]
      BY <2>1 DEF ReserveRefused, Answer, Goto
    <3>a. 0 \in Int
      OBVIOUS
    <3>3. PICK v \in Int : seen' = [seen EXCEPT ![r] = v]
      BY <2>0, <3>a, Zenon
    <3> QED
      BY <2>0, <1>a, <3>1, <3>2, <3>3
  <2>2. CASE Reserve(r, request[r].delta, seen[r]) /\ Continue(r, "reserved")
    BY <2>0, <2>2, <1>g DEF Continue, Goto
  <2> QED
    BY <1>3, <2>1, <2>2 DEF ReservePosition
<1>4. ASSUME NEW r \in Requests, CheckIdempotency(r) PROVE CoverInv'
  BY <1>4, <1>c, <1>d, <1>f DEF CheckIdempotency, AnswerFromRow
<1>5. ASSUME NEW r \in Requests, CheckFatFinger(r) PROVE CoverInv'
  BY <1>5, <1>c, <1>d, <1>f DEF CheckFatFinger
<1>6. ASSUME NEW r \in Requests, CreateOrder(r) PROVE CoverInv'
  <2>1. CASE row[Cid(r)] # Absent
    BY <1>6, <2>1, <1>c, <1>f DEF CreateOrder, AnswerFromRow
  <2>2. CASE row[Cid(r)] = Absent
    <3>1. /\ pc[r] = "validated" /\ pc' = [pc EXCEPT ![r] = "created"]
          /\ row' = [row EXCEPT ![Cid(r)] = r]
          /\ UNCHANGED <<request, broker, position, aggregate, token, seen>>
      BY <1>6, <2>2 DEF CreateOrder, Continue, Goto
    <3>2. broker[Cid(r)] = "none"
      BY <1>k, <2>2 DEF SubmissionInv, BrokerHasRow
    <3>3. \A s \in Requests : BrokerOrder(s)' = BrokerOrder(s)
      BY <1>0, <1>k, <3>1, <3>2 DEF BrokerOrder
    <3>4. Committed' \subseteq Committed
      BY <1>0, <3>1, <3>3 DEF Committed, Reserved
    <3>5. Covered'
      BY <3>1, <3>4, CoveredAsBefore DEF CoverInv
    <3> QED
      BY <1>0, <1>f, <3>1, <3>5 DEF CoverInv, TokenMatches, RowOfItsId, Unreserved
  <2> QED
    BY <2>1, <2>2
<1>7. ASSUME NEW r \in Requests, DatabaseError(r) \/ SkipBroker(r) PROVE CoverInv'
  BY <1>7, <1>c, <1>f DEF DatabaseError, SkipBroker
<1>8. ASSUME NEW r \in Requests, BrokerAccepts(r) PROVE CoverInv'
  <2>1. /\ pc[r] = "created" /\ pc' = [pc EXCEPT ![r] = "accepted"]
        /\ broker[Cid(r)] = "none" /\ broker' = [broker EXCEPT ![Cid(r)] = "live"]
        /\ UNCHANGED <<request, row, position, aggregate, token, seen>>
    BY <1>8 DEF BrokerAccepts, CallsBroker, Continue, Goto
  <2>2. \A s \in Requests : s # r => BrokerOrder(s)' = BrokerOrder(s)
    <3>1. row[Cid(r)] = r
      BY <2>1 DEF SubmissionInv, CallerOwnsRow, AfterCreate
    <3> QED
      BY <1>0, <1>k, <2>1, <3>1 DEF BrokerOrder
  <2>3. r \in Committed
    BY <2>1 DEF Committed, Reserved, BrokerOrder
  <2>4. Committed' \subseteq Committed
    BY <1>0, <2>1, <2>2, <2>3 DEF Committed
  <2>5. Covered'
    BY <2>1, <2>4, CoveredAsBefore DEF CoverInv
  <2>6. aggregate # Absent
    BY <2>1, <1>f DEF CoverInv, Unreserved
  <2> QED
    BY <1>0, <2>1, <2>5, <2>6 DEF CoverInv, TokenMatches, RowOfItsId, Unreserved
<1>9. ASSUME NEW r \in Requests, BrokerRefuses(r) PROVE CoverInv'
  <2>1. /\ pc[r] = "created" /\ pc' = [pc EXCEPT ![r] = "refused"]
        /\ UNCHANGED <<request, row, broker, position, aggregate, token, seen>>
    BY <1>9 DEF BrokerRefuses, CallsBroker, Goto
  <2>2. seen' = [seen EXCEPT ![r] = seen[r]] /\ seen[r] \in Int
    BY <1>0, <2>1
  <2> QED
    BY <1>a, <1>f, <2>1, <2>2
<1>10. ASSUME NEW r \in Requests, ConfirmReservation(r) PROVE CoverInv'
  <2>1. seen' = [seen EXCEPT ![r] = seen[r]] /\ seen[r] \in Int
    BY <1>0, <1>10 DEF ConfirmReservation
  <2> QED
    BY <1>10, <1>h, <2>1 DEF ConfirmReservation, Continue, Goto
<1>11. ASSUME NEW r \in Requests, RecordAcceptance(r) PROVE CoverInv'
  BY <1>11, <1>e DEF RecordAcceptance
<1>12. ASSUME NEW r \in Requests, ReleaseRefused(r) PROVE CoverInv'
  <2>1. seen' = [seen EXCEPT ![r] = seen[r]] /\ seen[r] \in Int
    BY <1>0, <1>12 DEF ReleaseRefused
  <2> QED
    BY <1>12, <1>b, <1>f, <2>1 DEF ReleaseRefused, Continue, Goto
<1>13. ASSUME NEW r \in Requests, RecordRefusal(r) \/ Crash(r) PROVE CoverInv'
  <2>1. PICK label \in {"done", "crashed"} : pc' = [pc EXCEPT ![r] = label]
    BY <1>13 DEF RecordRefusal, Crash, Goto
  <2>2. label \in Program \ (Reserved \union AfterCreate) /\ label # "sized"
    BY DEF Program, Reserved, AfterCreate
  <2>3. /\ UNCHANGED <<request, row, broker, position, aggregate, token>>
        /\ seen' = [seen EXCEPT ![r] = seen[r]] /\ seen[r] \in Int
    BY <1>0, <1>13 DEF RecordRefusal, Crash
  <2> QED
    BY <1>a, <2>1, <2>2, <2>3
<1>14. ASSUME NEW r \in Requests, TokenExpires(r) PROVE CoverInv'
  <2>1. /\ token' = [token EXCEPT ![r] = Absent] /\ token[r] # Absent
        /\ UNCHANGED <<request, row, broker, position, aggregate, seen, pc>>
    BY <1>14 DEF TokenExpires, ExpireToken
  <2>2. Committed' \subseteq Committed
    BY <1>0, <1>u, <2>1 DEF Committed
  <2>3. Covered'
    BY <2>1, <2>2, CoveredAsBefore DEF CoverInv
  <2> QED
    BY <1>0, <2>1, <2>3 DEF CoverInv, TokenMatches, RowOfItsId, Unreserved
<1>15. ASSUME NEW c \in ClientIds, BrokerFills(c) \/ BrokerCloses(c) PROVE CoverInv'
  <2>1. PICK new \in {"filled", "closed"} :
          /\ broker[c] = "live" /\ broker' = [broker EXCEPT ![c] = new]
          /\ position' = IF new = "filled" THEN position + request[row[c]].delta ELSE position
          /\ UNCHANGED <<request, row, aggregate, token, seen, pc>>
    BY <1>15 DEF BrokerFills, BrokerCloses
  <2>2. row[c] \in Requests /\ aggregate # Absent
    BY <2>1 DEF AnsweredInv, LiveOrderAccepted, CoverInv, Unreserved
  <2> DEFINE r == row[c]
  <2>3. ASSUME NEW s \in Requests, s # r PROVE BrokerOrder(s)' = BrokerOrder(s)
    <3>1. CASE Cid(s) = c
      BY <2>1, <2>3, <3>1 DEF BrokerOrder
    <3>2. CASE Cid(s) # c
      BY <1>0, <1>k, <2>1, <3>2 DEF BrokerOrder
    <3> QED
      BY <3>1, <3>2
  <2>4. BrokerOrder(r) = "live" /\ BrokerOrder(r)' = new
    <3>1. Cid(r) = c
      BY <2>2, NotARequest DEF CoverInv, RowOfItsId
    <3> QED
      BY <1>0, <2>1, <3>1 DEF BrokerOrder
  <2>5. r \in Committed /\ Committed' = Committed \ {r}
    BY <2>1, <2>2, <2>3, <2>4 DEF Committed
  <2>6. CASE new = "filled"
    <3>1. Covered'
      BY <2>1, <2>2, <2>5, <2>6, CoveredWithout DEF CoverInv
    <3> QED
      BY <1>0, <1>k, <2>1, <2>2, <2>6, <3>1 DEF CoverInv, TokenMatches, RowOfItsId, Unreserved
  <2>7. CASE new = "closed"
    <3>1. Covered'
      BY <2>1, <2>5, <2>7, CoveredAsBefore DEF CoverInv
    <3> QED
      BY <1>0, <2>1, <2>2, <2>7, <3>1 DEF CoverInv, TokenMatches, RowOfItsId, Unreserved
  <2> QED
    BY <2>6, <2>7
<1>16. CASE ChangeKillSwitch \/ ChangeBreaker \/ UNCHANGED vars
  <2>1. UNCHANGED <<request, row, broker, position, aggregate, token, seen, pc>>
    BY <1>16 DEF ChangeKillSwitch, ChangeBreaker, vars
  <2>2. Committed' \subseteq Committed
    BY <1>u, <2>1 DEF Committed
  <2>3. Covered'
    BY <2>1, <2>2, CoveredAsBefore DEF CoverInv
  <2> QED
    BY <2>1, <2>3 DEF CoverInv, TokenMatches, RowOfItsId, Unreserved
<1>17. ~RedisRestart
  BY Zenon DEF RedisRestart, OneSided
<1>18. ASSUME NEW r \in Requests PROVE ~BrokerReplyLost(r)
  BY Zenon DEF BrokerReplyLost, OneSided
<1>19. ASSUME NEW r \in Requests, CallRaises(r) PROVE CoverInv'
  <2>0. /\ pc' = [pc EXCEPT ![r] = "done"] /\ seen' = [seen EXCEPT ![r] = 0]
        /\ UNCHANGED <<request, row, broker, position>>
    BY <1>19 DEF CallRaises, Answer, Goto
  <2>a. 0 \in Int
    OBVIOUS
  <2>b. PICK v \in Int : seen' = [seen EXCEPT ![r] = v]
    BY <2>0, <2>a, Zenon
  <2>1. CASE UNCHANGED reservationVars
    <3>1. "done" \in Program \ (Reserved \union AfterCreate) /\ "done" # "sized"
      BY DEF Program, Reserved, AfterCreate
    <3> QED
      BY <2>0, <2>1, <1>a, <2>b, <3>1
  <2>2. CASE pc[r] = "sized" /\ Reserve(r, request[r].delta, seen[r])
    BY <2>0, <2>2, <1>g
  <2>3. CASE /\ pc[r] \in {"reserved", "checked", "validated", "created", "refused"}
             /\ Release(r)
    BY <2>0, <2>3, <1>b, <1>f, <2>b
  <2>4. CASE pc[r] = "accepted" /\ Confirm(r)
    BY <2>0, <2>4, <1>h, <2>b
  <2> QED
    BY <1>19, <2>1, <2>2, <2>3, <2>4 DEF CallRaises
<1> QED
  BY <1>1, <1>2, <1>3, <1>4, <1>5, <1>6, <1>7, <1>8, <1>9, <1>10, <1>11, <1>12, <1>13, <1>14,
     <1>15, <1>16, <1>17, <1>18, <1>19
     DEF Next, Handler

(* CoverInv holds in every reachable state.                                *)
LEMMA CoverInvariant == OneSided => (Spec => []CoverInv)
<1> SUFFICES ASSUME OneSided PROVE Spec => []CoverInv
  OBVIOUS
<1>1. Init => AnsweredInv
  BY DEF Init, AnsweredInv, Unanswered, LiveOrderAccepted
<1>2. SubmissionInv /\ AnsweredInv /\ [Next]_vars => AnsweredInv'
  BY AnsweredInductive DEF OneSided
<1>3. Init => CoverInv
  BY DEF Init, ReservationInit, CoverInv, TokenMatches, RowOfItsId, Unreserved, Covered, Reserved,
         AfterCreate
<1>4. SubmissionInv /\ AnsweredInv /\ CoverInv /\ [Next]_vars => CoverInv'
  BY CoverInductive
<1> QED
  BY <1>1, <1>2, <1>3, <1>4, SubmissionInvariant, PTL DEF Spec

(* With buy orders only, for any number of requests and quantities, and    *)
(* through crashes and expired tokens, the aggregate of reserve() and      *)
(* release() covers the position and every order that may still execute,   *)
(* as long as the broker's replies arrive and Redis keeps its keys.        *)
THEOREM ReservationCoversExposure == OneSided => (Spec => []AggregateCoversExposure)
<1> SUFFICES ASSUME OneSided PROVE Spec => []AggregateCoversExposure
  OBVIOUS
<1>1. SubmissionInv /\ CoverInv => AggregateCoversExposure
  <2> SUFFICES ASSUME SubmissionInv, CoverInv, aggregate # Absent PROVE Exposure <= aggregate
    BY DEF AggregateCoversExposure
  <2>1. request \in [Requests -> Request] /\ position \in Int /\ aggregate \in Int
    BY DEF SubmissionInv, TypeOK, ReservationTypeOK
  <2>2. Exposed \in SUBSET Requests /\ Committed \in SUBSET Requests /\ Exposed \subseteq Committed
    BY DEF Exposed, Committed
  <2>3. /\ Count(request, Exposed) \in Nat /\ Count(request, Committed) \in Nat
        /\ Count(request, Exposed) <= Count(request, Committed)
    BY <2>1, <2>2, SharesCount DEF OneSided
  <2>4. position + Count(request, Committed) <= aggregate
    BY DEF CoverInv, Covered
  <2> QED
    BY <2>1, <2>3, <2>4 DEF Exposure, Count
<1> QED
  BY <1>1, CoverInvariant, SubmissionInvariant, PTL

(* Under the same conditions the executed position stays within            *)
(* max_position_size, whatever order the requests run and stop in.         *)
THEOREM PositionWithinLimit ==
    OneSided /\ WithinLimit(StartPosition) => (Spec => []ExecutedWithinLimit)
<1> SUFFICES ASSUME OneSided, WithinLimit(StartPosition) PROVE Spec => []ExecutedWithinLimit
  OBVIOUS
<1>1. SubmissionInv /\ CoverInv => ExecutedWithinLimit
  <2> SUFFICES ASSUME SubmissionInv, CoverInv PROVE WithinLimit(position)
    BY DEF ExecutedWithinLimit
  <2>1. /\ request \in [Requests -> Request] /\ position \in Int
        /\ aggregate \in Int \union {Absent} /\ StartPosition <= position
    BY DEF SubmissionInv, TypeOK, ReservationTypeOK, CoverInv
  <2>2. CASE aggregate = Absent
    BY <2>2 DEF CoverInv, Unreserved
  <2>3. CASE aggregate # Absent
    <3>1. Count(request, Committed) \in Nat
      <4>1. Committed \in SUBSET Requests
        BY DEF Committed
      <4> QED
        BY <2>1, <4>1, SharesCount DEF OneSided
    <3>2. position + Count(request, Committed) <= aggregate /\ aggregate <= MaxLimit
      BY <2>3 DEF CoverInv, Covered
    <3>a. aggregate \in Int /\ MaxLimit \in Int
      BY <2>1, <2>3
    <3>b. \A p, a, m \in Int, n \in Nat : p + n <= a /\ a <= m => p <= m
      OBVIOUS
    <3>3. position <= MaxLimit
      BY <2>1, <3>1, <3>2, <3>a, <3>b, Zenon
    <3> QED
      BY <2>1, <3>3 DEF WithinLimit, Magnitude
  <2> QED
    BY <2>2, <2>3
<1> QED
  BY <1>1, CoverInvariant, SubmissionInvariant, PTL
=============================================================================
