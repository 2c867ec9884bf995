---------------------------- MODULE OrderLifecycle ----------------------------
(***************************************************************************)
(* The life of one order after its row exists: the end of submit_order or  *)
(* of a manual order, the broker's webhooks (routes/webhooks.py),          *)
(* cancel_order (routes/orders.py), the manual controls' cancellation      *)
(* (api/manual_controls.py) and the periodic reconciliation                *)
(* (reconciliation/) all write the same row of the orders table and the    *)
(* same row of the positions table, at the same time.                      *)
(*                                                                         *)
(* The order buys Qty shares of a symbol nobody else trades.  The broker   *)
(* is external: it fills the order share by share, may cancel it, stamps   *)
(* every change with its updated_at and posts a webhook for it, which may  *)
(* arrive late, out of order, more than once or never.                     *)
(***************************************************************************)
EXTENDS OrderRow

CONSTANTS
    Qty,             \* shares ordered
    MaxClock,        \* bound on the number of distinct timestamps
    MaxDeliveries,   \* bound on the deliveries of webhooks, repeats included
    LostReplies,     \* may the broker's answer to submit_order be lost?
    BothCancels      \* may cancel_order and a manual cancellation both run?

ASSUME QtyAssumption == Qty \in Nat \ {0}
ASSUME ClockAssumption == MaxClock \in Nat \ {0}
ASSUME DeliveriesAssumption == MaxDeliveries \in Nat
ASSUME LostRepliesAssumption == LostReplies \in BOOLEAN
ASSUME BothCancelsAssumption == BothCancels \in BOOLEAN

VARIABLES
    clock,      \* the time, on the clock the broker and the gateway share
    row,        \* conflict-resolution columns of the order's row
    known,      \* does the row hold the broker_order_id?
    broker,     \* the broker's order; status "none" before it exists
    mail,       \* webhooks the broker has sent and may send again
    deliveries, \* webhooks delivered so far
    submit,     \* where submit_order is, or the submission of a manual order
    cancel,     \* where cancel_order is, and the row it read
    manual,     \* where a manual cancellation is, and the row it read
    recon,      \* where the reconciliation run is, and what it fetched
    position    \* positions.qty of the symbol

vars == <<clock, row, known, broker, mail, deliveries, submit, cancel, manual,
          recon, position>>
storeVars == <<row, known, position>>
actorVars == <<submit, cancel, recon, manual>>
brokerVars == <<broker, mail, deliveries>>

Clock == 1..MaxClock
BrokerStatuses == {"none", "new", "partially_filled", "filled", "canceled"}
BrokerOrder == [status : BrokerStatuses, filled : 0..Qty, stamp : 0..MaxClock]
NoOrder == [status |-> "none", filled |-> 0, stamp |-> 0]
Rows == [status : Statuses, filled : 0..Qty, stamp : 0..MaxClock, source : Sources]
Runs == [at : {"idle", "fetched", "listed", "known", "found", "ordered", "counted"},
         order : BrokerOrder, inside : BOOLEAN, position : 0..Qty]
EmptyRun(at) == [at |-> at, order |-> NoOrder, inside |-> FALSE, position |-> 0]
NoRun == EmptyRun("idle")
Desk == [at : {"idle", "read", "marked", "done"}, status : Statuses, known : BOOLEAN]
NoCancel(at) == [at |-> at, filled |-> 0, known |-> FALSE]
NoManual(at) == [at |-> at, status |-> "pending_new", known |-> FALSE]
EventKinds == {"status", "fill"}
Event == [kind : EventKinds, order : BrokerOrder]

TypeOK ==
    /\ clock \in Clock
    /\ row \in Rows
    /\ known \in BOOLEAN
    /\ broker \in BrokerOrder
    /\ mail \subseteq Event
    /\ deliveries \in 0..MaxDeliveries
    /\ submit \in {"created", "accepted", "rejected", "failed"}
                   \union {"placed", "taken", "refused", "done"}
    /\ cancel \in [at : {"idle", "read", "sent", "done"}, filled : 0..Qty, known : BOOLEAN]
    /\ manual \in Desk
    /\ recon \in Runs
    /\ position \in Nat

\* create_order has just inserted the row: last_updated_at is NULL and
\* source_priority has the column's default.
Init ==
    /\ clock = 1
    /\ row = [status |-> "pending_new", filled |-> 0, stamp |-> 0,
              source |-> SourceReconciliation]
    /\ known = FALSE
    /\ broker = NoOrder
    /\ mail = {}
    /\ deliveries = 0
    /\ submit \in {"created", "placed"}
    /\ cancel = NoCancel("idle")
    /\ manual = NoManual("idle")
    /\ recon = NoRun
    /\ position = 0

-----------------------------------------------------------------------------
(* The broker and the clock.                                               *)

Open == broker.status \in {"new", "partially_filled"}

\* The broker changes its order and posts a webhook for the change.
Report(kind, order) ==
    /\ broker' = order
    /\ mail' = mail \union {[kind |-> kind, order |-> order]}
    /\ UNCHANGED deliveries

BrokerFills ==
    /\ Open
    /\ LET filled == broker.filled + 1
       IN  Report("fill", [status |-> IF filled = Qty THEN "filled" ELSE "partially_filled",
                           filled |-> filled, stamp |-> clock])
    /\ UNCHANGED <<clock, storeVars, actorVars>>

\* A requested cancellation takes effect, or the order expires.
BrokerCancels ==
    /\ Open
    /\ Report("status", [status |-> "canceled", filled |-> broker.filled, stamp |-> clock])
    /\ UNCHANGED <<clock, storeVars, actorVars>>

Tick ==
    /\ clock < MaxClock
    /\ clock' = clock + 1
    /\ UNCHANGED <<storeVars, brokerVars, actorVars>>

-----------------------------------------------------------------------------
(* The end of submit_order, and of _submit_live_manual_order for an order  *)
(* placed by hand, which writes the row unconditionally on every branch.   *)

SubmitCalls(from, next) ==
    /\ submit = from
    /\ submit' = next
    /\ UNCHANGED <<clock, storeVars, cancel, recon, manual>>

BrokerTakesOrder ==
    Report("status", [status |-> "new", filled |-> 0, stamp |-> clock])

SubmitAccepted ==
    /\ SubmitCalls("created", "accepted") \/ SubmitCalls("placed", "taken")
    /\ BrokerTakesOrder

RefusedCall ==
    \/ \E answer \in {"rejected", "failed"} : SubmitCalls("created", answer)
    \/ SubmitCalls("placed", "refused")

\* The broker refuses the order or is not reached; a manual order also ends
\* here when the circuit breaker has tripped since its row was created.
SubmitRefused == RefusedCall /\ UNCHANGED brokerVars

\* The broker takes the order, but the client sees a connection error or,
\* after a retry, a duplicate rejection.
SubmitReplyLost == LostReplies /\ RefusedCall /\ BrokerTakesOrder

SubmitEnds ==
    /\ submit' = "done"
    /\ UNCHANGED <<clock, brokerVars, cancel, recon, manual, position>>

\* update_order_status after the broker's answer, with the status in that answer
\* for a manual order; a failure is only logged or ends the request.
RecordAcceptance ==
    /\ submit \in {"accepted", "taken"}
    /\ \/ /\ row' = Overwrite(row, IF submit = "taken" THEN "new" ELSE "pending_new", clock)
          /\ known' = TRUE
       \/ UNCHANGED <<row, known>>
    /\ SubmitEnds

\* update_order_status_cas in the branches for broker errors.
RecordRefusal ==
    /\ submit \in {"rejected", "failed"}
    /\ row' = Cas(row, [status |-> submit, filled |-> 0, stamp |-> clock,
                        source |-> SourceManual])
    /\ UNCHANGED known
    /\ SubmitEnds

\* update_order_status in the error branches of a manual order; a failure is
\* only logged.
RecordManualRefusal ==
    /\ submit = "refused"
    /\ row' = Overwrite(row, "failed", clock) \/ UNCHANGED row
    /\ UNCHANGED known
    /\ SubmitEnds

\* The worker stops between two calls, or the branch for unexpected errors
\* answers without writing the row.
SubmitCrashes ==
    /\ submit # "done"
    /\ submit' = "done"
    /\ UNCHANGED <<clock, storeVars, brokerVars, cancel, recon, manual>>

-----------------------------------------------------------------------------
(* Webhooks.                                                               *)

FromBroker(order, source) ==
    [status |-> order.status, filled |-> order.filled, stamp |-> order.stamp,
     source |-> source]

\* Write a broker order through the CAS; broker_order_id comes with it.
ApplyOrder(order, source) ==
    LET u == FromBroker(order, source)
    IN  /\ row' = Cas(row, u)
        /\ known' = (known \/ CasAccepts(row, u))

Receive(e) ==
    /\ deliveries < MaxDeliveries
    /\ deliveries' = deliveries + 1
    /\ UNCHANGED <<clock, broker, mail, actorVars>>

\* The fast path: an event that is not a fill only updates the row.
StatusWebhook(e) ==
    /\ e.kind = "status"
    /\ Receive(e)
    /\ IF row.status = "replaced"
       THEN UNCHANGED <<row, known>>
       ELSE ApplyOrder(e.order, SourceWebhook)
    /\ UNCHANGED position

\* Mutant: any fill completes the order.
FillWebhookCompletes(e) ==
    /\ e.kind = "fill"
    /\ Receive(e)
    /\ ApplyOrder([e.order EXCEPT !.status = "filled"], SourceWebhook)
    /\ position' = position + GreaterOf(0, e.order.filled - row.filled)

\* The fill path, one transaction under the row's lock: the position moves
\* by what the cumulative quantity exceeds the row's; the result of the CAS
\* that should advance the row's is not looked at.
FillWebhook(e) ==
    /\ e.kind = "fill"
    /\ Receive(e)
    /\ IF row.status = "replaced"
       THEN UNCHANGED storeVars
       ELSE /\ position' = position + GreaterOf(0, e.order.filled - row.filled)
            /\ ApplyOrder(e.order, SourceWebhook)

-----------------------------------------------------------------------------
(* cancel_order.                                                           *)

CancelRead ==
    /\ cancel.at = "idle"
    /\ BothCancels \/ manual.at = "idle"
    /\ cancel' = IF row.status \in Terminal
                 THEN NoCancel("done")
                 ELSE [at |-> "read", filled |-> row.filled, known |-> known]
    /\ UNCHANGED <<clock, storeVars, brokerVars, submit, recon, manual>>

\* The broker is asked only when its order id is in the row; the handler
\* gives up when it refuses (422, the order is closed) or is not reached.
CancelAtBroker ==
    /\ cancel.at = "read"
    /\ \/ /\ cancel.known => Open
          /\ cancel' = [cancel EXCEPT !.at = "sent"]
       \/ /\ cancel.known
          /\ cancel' = NoCancel("done")
    /\ UNCHANGED <<clock, storeVars, brokerVars, submit, recon, manual>>

CancelRecord ==
    /\ cancel.at = "sent"
    /\ row' = Cas(row, [status |-> "canceled", filled |-> cancel.filled,
                        stamp |-> clock, source |-> SourceManual])
    /\ cancel' = NoCancel("done")
    /\ UNCHANGED <<clock, known, brokerVars, submit, recon, manual, position>>

-----------------------------------------------------------------------------
(* The manual controls' cancel_order, and each order of cancel_all_orders. *)

ManualStep(from) ==
    /\ manual.at = from
    /\ UNCHANGED <<clock, known, position, brokerVars, submit, cancel, recon>>

\* cancel_order takes an order of any status, a closed one too.
ManualRead ==
    /\ ManualStep("idle")
    /\ BothCancels \/ cancel.at = "idle"
    /\ manual' = [at |-> "read", status |-> row.status, known |-> known]
    /\ UNCHANGED row

\* update_order_status("pending_cancel") before the broker is asked.
ManualMark ==
    /\ ManualStep("read")
    /\ row' = Overwrite(row, "pending_cancel", clock)
    /\ manual' = [manual EXCEPT !.at = "marked"]

\* Without a broker_order_id the row is closed at once; otherwise, when the
\* broker refuses the cancellation or is not reached in time, the status that
\* was read goes back into the row.
ManualRecord ==
    /\ ManualStep("marked")
    /\ row' = Overwrite(row, IF manual.known THEN manual.status ELSE "canceled", clock)
    /\ manual' = NoManual("done")

\* The broker takes the request and the row waits for its webhook; or a write
\* fails, which ends the request, or is only logged when it is the last.
ManualEnd ==
    /\ ManualStep("read") \/ ManualStep("marked")
    /\ manual' = NoManual("done")
    /\ UNCHANGED row

ManualCancel == ManualRead \/ ManualMark \/ ManualRecord \/ ManualEnd

-----------------------------------------------------------------------------
(* A reconciliation run (service.py, _run_reconciliation).                 *)

\* Where the run goes next; what it fetched is used up once the orders are done.
RunAt(at) == IF at = "ordered" THEN EmptyRun(at) ELSE [recon EXCEPT !.at = at]

ReconStep(from, to) ==
    /\ recon.at = from
    /\ recon' = RunAt(to)
    /\ UNCHANGED <<clock, brokerVars, submit, cancel, manual>>

\* The two bulk queries: an open order is in them, any other only when it was
\* created inside the window of recent orders.
ReconFetchOrders ==
    /\ recon.at = "idle"
    /\ \E inside \in BOOLEAN :
          recon' = [at |-> "fetched", order |-> IF inside \/ Open THEN broker ELSE NoOrder,
                    inside |-> inside, position |-> 0]
    /\ UNCHANGED <<clock, storeVars, brokerVars, submit, cancel, manual>>

\* Mutant: a run with no open row to reconcile ends early.
ReconListRowsOrStop ==
    /\ ReconStep("fetched", IF row.status \in Terminal THEN "idle" ELSE "listed")
    /\ UNCHANGED storeVars

\* get_non_terminal_orders, read after the broker's orders.
ReconListRows ==
    /\ ReconStep("fetched", IF row.status \in Terminal THEN "ordered" ELSE "listed")
    /\ UNCHANGED storeVars

\* apply_broker_update with what was fetched or looked up, if anything.
ReconApplyOrder(from, to) ==
    /\ ReconStep(from, to)
    /\ IF recon.order = NoOrder
       THEN UNCHANGED <<row, known>>
       ELSE ApplyOrder(recon.order, SourceReconciliation)
    /\ UNCHANGED position

ReconKnownOrder == ReconApplyOrder("listed", "known")
ReconFoundOrder == ReconApplyOrder("found", "ordered")

\* Mutant: only orders inside the window are looked up.
ReconLookupOrderRecent ==
    /\ recon.at = "known"
    /\ recon' = IF recon.inside
                THEN [recon EXCEPT !.at = "found", !.order = broker]
                ELSE RunAt("ordered")
    /\ UNCHANGED <<clock, storeVars, brokerVars, submit, cancel, manual>>

\* reconcile_missing_orders asks the broker for every listed order created
\* before the window, found in the bulk queries or not.
ReconLookupOrder ==
    /\ recon.at = "known"
    /\ recon' = IF recon.inside
                THEN RunAt("ordered")
                ELSE [recon EXCEPT !.at = "found", !.order = broker]
    /\ UNCHANGED <<clock, storeVars, brokerVars, submit, cancel, manual>>

\* reconcile_positions, the broker's answer ...
ReconFetchPositions ==
    /\ recon.at = "ordered"
    /\ recon' = [recon EXCEPT !.at = "counted", !.position = broker.filled]
    /\ UNCHANGED <<clock, storeVars, brokerVars, submit, cancel, manual>>

\* ... and upsert_position_snapshot, some time later.  A symbol the broker does
\* not hold is flattened only if the positions read in between have it.
ReconStorePositions ==
    /\ recon.at = "counted"
    /\ \/ position' = recon.position
       \/ recon.position = 0 /\ UNCHANGED position
    /\ recon' = NoRun
    /\ UNCHANGED <<clock, row, known, brokerVars, submit, cancel, manual>>

\* A call to the broker or the database raises; the next period starts over.
ReconFails ==
    /\ recon.at # "idle"
    /\ recon' = NoRun
    /\ UNCHANGED <<clock, storeVars, brokerVars, submit, cancel, manual>>

Reconcile ==
    \/ ReconFetchOrders \/ ReconListRows
    \/ ReconKnownOrder \/ ReconLookupOrder \/ ReconFoundOrder
    \/ ReconFetchPositions \/ ReconStorePositions

Next ==
    \/ BrokerFills \/ BrokerCancels \/ Tick
    \/ SubmitAccepted \/ SubmitRefused \/ SubmitReplyLost
    \/ RecordAcceptance \/ RecordRefusal \/ RecordManualRefusal \/ SubmitCrashes
    \/ \E e \in mail : StatusWebhook(e) \/ FillWebhook(e)
    \/ CancelRead \/ CancelAtBroker \/ CancelRecord
    \/ ManualCancel
    \/ Reconcile \/ ReconFails

Spec == Init /\ [][Next]_vars

\* run_periodic_loop starts a run every poll interval, and a run's calls do
\* not fail for ever.
FairSpec ==
    /\ Spec
    /\ WF_vars(ReconFetchOrders)
    /\ SF_vars(ReconListRows)
    /\ SF_vars(ReconKnownOrder)
    /\ SF_vars(ReconLookupOrder)
    /\ SF_vars(ReconFoundOrder)
    /\ SF_vars(ReconFetchPositions)
    /\ SF_vars(ReconStorePositions)

-----------------------------------------------------------------------------
(* Properties.                                                             *)

\* The row never claims a share the broker has not filled, and says "filled"
\* only of an order the broker filled, whichever writer came last and however
\* stale what it had read or, in the manual controls, puts back.
RowWithinBroker ==
    /\ row.filled <= broker.filled
    /\ row.status = "filled" => broker.status = "filled"

\* No write, late or repeated, takes filled_qty or last_updated_at back.
RowAdvances ==
    [][row'.filled >= row.filled /\ row'.stamp >= row.stamp]_vars

\* A row closed without being filled is left as it is by every webhook,
\* cancel_order, reconciliation run and refusal of submit_order, however late
\* they write.  What may still change it are the writers that do not look at the
\* row: the record of the broker's acceptance, and the manual controls.
ClosedRowLocked ==
    [][row.status \in Closed /\ row' # row =>
          \/ submit \in {"accepted", "taken", "refused"} /\ submit' = "done"
          \/ manual' # manual]_vars

\* "Periodic reconciliation detects and heals drift": whatever webhooks are
\* lost, repeated or counted twice, the position settles at the broker's.
PositionHeals == <>[](position = broker.filled)

\* Once the broker has closed the order, its row does not stay open for ever,
\* even if every webhook is lost, unless a writer of the gateway has stamped it
\* later than the broker's last change.
ClosedOrderSettles ==
    <>[](broker.status \in Terminal /\ row.stamp <= broker.stamp => row.status \in Terminal)

-----------------------------------------------------------------------------
(* What the documentation says and the code does not do: TLC refutes these *)
(* (the README gives the constants), so no passing run checks them.        *)

\* A fill moves the position by the shares it adds, however often and in
\* whatever order its webhooks arrive: the position holds no share the
\* broker has not filled.
FillCountedOnce == position <= broker.filled

\* The same promise for the order, without the exception: once the broker has
\* closed it, its row does not stay open for ever.
ClosedOrderNotStuck ==
    <>[](broker.status \in Terminal => row.status \in Terminal)

\* "Once an order reaches a terminal status, it cannot be reverted to an
\* active state."
TerminalNeverReverted ==
    [][row.status \in Terminal => row'.status \in Terminal]_vars

\* "'filled' orders allow updates for late fills and price corrections": a
\* filled row is not closed as something else.
FilledNeverClosed ==
    [][row.status = "filled" => row'.status \notin Closed]_vars
=============================================================================
