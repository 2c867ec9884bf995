------------------------- MODULE OrderLifecycleProofs -------------------------
(***************************************************************************)
(* Theorems about OrderLifecycle, for any quantity, any number of          *)
(* timestamps and any number of webhook deliveries.                        *)
(***************************************************************************)
EXTENDS OrderLifecycle, TLAPS

USE QtyAssumption, ClockAssumption, DeliveriesAssumption, LostRepliesAssumption,
    BothCancelsAssumption

(* A broker order somebody saw is no newer and no fuller than the broker's *)
(* order is now.                                                           *)
Seen(order) ==
    /\ order.filled <= broker.filled
    /\ order.stamp <= clock
    /\ order.status = "filled" => broker.status = "filled"

(* What webhooks, a reconciliation run and a cancel request carry was true *)
(* of the broker's order at some time.                                     *)
EventsTruthful == \A e \in mail : e.order.status # "none" /\ Seen(e.order)
ReconTruthful ==
    /\ Seen(recon.order)
    /\ recon.order.status = "none" => recon.order = NoOrder
CancelTruthful == cancel.filled <= broker.filled

(* A manual cancellation puts "filled" back only for an order that is.     *)
ManualTruthful == manual.status = "filled" => broker.status = "filled"

(* The broker's order exists only after submit_order has called, and is    *)
(* never overfilled.                                                       *)
BrokerSound ==
    /\ submit \in {"created", "placed"} => broker = NoOrder
    /\ broker.status = "none" => broker = NoOrder
    /\ Open => broker.filled < Qty
    /\ broker.stamp <= clock

RowNotAhead == RowWithinBroker /\ row.stamp <= clock

LifecycleInv ==
    /\ TypeOK
    /\ BrokerSound
    /\ RowNotAhead
    /\ EventsTruthful
    /\ ReconTruthful
    /\ CancelTruthful
    /\ ManualTruthful

(* update_order_status_cas yields the old row or the update with the       *)
(* greater quantity, and never an earlier stamp.                           *)
LEMMA CasEffect ==
    ASSUME NEW r \in Rows, NEW u \in Rows
    PROVE  /\ Cas(r, u) \in Rows
           /\ Cas(r, u).filled \in {r.filled, u.filled}
           /\ Cas(r, u).status \in {r.status, u.status}
           /\ Cas(r, u).stamp \in {r.stamp, u.stamp}
           /\ Cas(r, u).filled >= r.filled
           /\ Cas(r, u).stamp >= r.stamp
<1>1. CASE CasAccepts(r, u)
  <2>1. Cas(r, u) = [status |-> u.status, filled |-> GreaterOf(r.filled, u.filled),
                     stamp |-> u.stamp, source |-> u.source]
    BY <1>1 DEF Cas, CasWrite
  <2>2. GreaterOf(r.filled, u.filled) \in {r.filled, u.filled}
        /\ GreaterOf(r.filled, u.filled) >= r.filled
    BY DEF GreaterOf, Rows
  <2>3. r.stamp <= u.stamp
    BY <1>1 DEF CasAccepts, Rows
  <2> QED
    BY <2>1, <2>2, <2>3 DEF Rows
<1>2. CASE ~CasAccepts(r, u)
  BY <1>2 DEF Cas, Rows
<1> QED
  BY <1>1, <1>2

(* The terminal lock: update_order_status_cas leaves a row closed without  *)
(* a fill as it is.                                                        *)
LEMMA CasLocksClosed ==
    ASSUME NEW r, NEW u, r.status \in Closed
    PROVE  Cas(r, u) = r
BY DEF Cas, CasAccepts, Terminal, Closed

(* A write of a truthful update keeps the row behind the broker's order.   *)
LEMMA WriteKeepsRow ==
    ASSUME LifecycleInv, NEW u \in Rows, row' = Cas(row, u),
           u.filled <= broker.filled, u.stamp <= clock,
           u.status = "filled" => broker.status = "filled",
           broker' = broker, clock' = clock
    PROVE  /\ row' \in Rows
           /\ RowNotAhead'
           /\ row'.filled >= row.filled
           /\ row'.stamp >= row.stamp
<1>1. row \in Rows
  BY DEF LifecycleInv, TypeOK
<1>2. /\ row' \in Rows
      /\ row'.filled \in {row.filled, u.filled}
      /\ row'.status \in {row.status, u.status}
      /\ row'.stamp \in {row.stamp, u.stamp}
      /\ row'.filled >= row.filled
      /\ row'.stamp >= row.stamp
  BY <1>1, CasEffect
<1> QED
  BY <1>2 DEF LifecycleInv, RowNotAhead, RowWithinBroker

(* So does update_order_status with a status that is not "filled", or that  *)
(* was read when the broker had filled the order.                          *)
LEMMA OverwriteKeepsRow ==
    ASSUME LifecycleInv, NEW status \in Statuses, row' = Overwrite(row, status, clock),
           status = "filled" => broker.status = "filled",
           broker' = broker, clock' = clock
    PROVE  /\ row' \in Rows
           /\ RowNotAhead'
           /\ row'.filled >= row.filled
           /\ row'.stamp >= row.stamp
<1>1. row \in Rows /\ clock \in Clock
  BY DEF LifecycleInv, TypeOK
<1>2. row' = [status |-> status, filled |-> row.filled, stamp |-> clock, source |-> row.source]
  BY DEF Overwrite
<1>3. row' \in Rows
  BY <1>1, <1>2 DEF Rows, Clock
<1> QED
  BY <1>1, <1>2, <1>3 DEF LifecycleInv, RowNotAhead, RowWithinBroker, Rows, Clock

(* The update made of a broker order that was seen is truthful.            *)
LEMMA FromBrokerTruthful ==
    ASSUME NEW order \in BrokerOrder, order.status # "none", NEW source \in Sources
    PROVE  /\ FromBroker(order, source) \in Rows
           /\ FromBroker(order, source).filled = order.filled
           /\ FromBroker(order, source).stamp = order.stamp
           /\ FromBroker(order, source).status = order.status
BY DEF FromBroker, BrokerOrder, BrokerStatuses, Rows, Statuses, Submitted,
       Active, Closed

(* ApplyOrder, as webhooks and reconciliation use it.                      *)
LEMMA ApplyKeepsRow ==
    ASSUME LifecycleInv, NEW order \in BrokerOrder, order.status # "none",
           Seen(order), NEW source \in Sources, ApplyOrder(order, source),
           broker' = broker, clock' = clock
    PROVE  /\ row' \in Rows
           /\ known' \in BOOLEAN
           /\ RowNotAhead'
           /\ row'.filled >= row.filled
           /\ row'.stamp >= row.stamp
<1>1. row' = Cas(row, FromBroker(order, source)) /\ known' \in BOOLEAN
  BY DEF ApplyOrder, LifecycleInv, TypeOK
<1> QED
  BY <1>1, FromBrokerTruthful, WriteKeepsRow DEF Seen

(* The broker's order only moves forward, so what was seen of it stays     *)
(* true.                                                                   *)
LEMMA ForwardKeepsTruth ==
    ASSUME LifecycleInv,
           broker' \in BrokerOrder, clock' \in Clock,
           broker'.filled >= broker.filled, clock' >= clock,
           broker.status = "filled" => broker'.status = "filled",
           UNCHANGED <<row, cancel, recon, manual>>
    PROVE  /\ RowNotAhead' /\ CancelTruthful' /\ ReconTruthful' /\ ManualTruthful'
           /\ \A e \in mail : e.order.status # "none" /\ Seen(e.order)'
<1> USE DEF LifecycleInv, TypeOK, Runs, Clock, BrokerOrder, Rows
<1>1. RowNotAhead'
  BY DEF RowNotAhead, RowWithinBroker
<1>2. CancelTruthful'
  BY DEF CancelTruthful
<1>3. ReconTruthful'
  BY DEF ReconTruthful, Seen
<1>4. ASSUME NEW e \in mail PROVE e.order.status # "none" /\ Seen(e.order)'
  BY DEF EventsTruthful, Seen, Event
<1>5. ManualTruthful'
  BY DEF ManualTruthful
<1> QED
  BY <1>1, <1>2, <1>3, <1>4, <1>5

(* A report of the broker's next order keeps the invariant.                *)
LEMMA ReportKeepsInv ==
    ASSUME LifecycleInv, NEW kind \in EventKinds, NEW order \in BrokerOrder,
           Report(kind, order), order.status # "none", order.stamp = clock,
           order.filled >= broker.filled,
           broker.status = "filled" => order.status = "filled",
           order.status \in {"new", "partially_filled"} => order.filled < Qty,
           submit' \in {"accepted", "rejected", "failed", "taken", "refused", "done"},
           UNCHANGED <<clock, storeVars, cancel, recon, manual>>
    PROVE  LifecycleInv'
<1>1. broker' = order /\ mail' = mail \union {[kind |-> kind, order |-> order]}
      /\ deliveries' = deliveries
  BY DEF Report
<1>2. clock \in Clock /\ row' = row /\ known' = known /\ position' = position
  BY DEF LifecycleInv, TypeOK, storeVars
<1>3. TypeOK'
  BY <1>1, <1>2 DEF LifecycleInv, TypeOK, Runs, Event, EventKinds, Clock
<1>4. /\ RowNotAhead' /\ CancelTruthful' /\ ReconTruthful' /\ ManualTruthful'
      /\ \A e \in mail : e.order.status # "none" /\ Seen(e.order)'
  BY <1>1, <1>2, ForwardKeepsTruth DEF Clock
<1>5. Seen(order)'
  BY <1>1, <1>2 DEF Seen, BrokerOrder, Clock
<1>6. EventsTruthful'
  BY <1>1, <1>4, <1>5 DEF EventsTruthful
<1>7. BrokerSound'
  BY <1>1, <1>2 DEF BrokerSound, Open, BrokerOrder, Clock
<1> QED
  BY <1>3, <1>4, <1>6, <1>7 DEF LifecycleInv

(* A step that only writes the row and the actors' own state keeps the     *)
(* invariant when the row stays behind the broker's order.                 *)
LEMMA StoreKeepsInv ==
    ASSUME LifecycleInv, TypeOK', RowNotAhead', CancelTruthful', ReconTruthful',
           broker' = broker, mail' = mail, clock' = clock,
           submit' = submit \/ submit' \notin {"created", "placed"},
           manual' = manual \/ ManualTruthful'
    PROVE  LifecycleInv'
<1>1. BrokerSound'
  BY DEF LifecycleInv, BrokerSound, Open
<1>2. EventsTruthful'
  BY DEF LifecycleInv, EventsTruthful, Seen
<1>3. ManualTruthful'
  BY DEF LifecycleInv, ManualTruthful
<1> QED
  BY <1>1, <1>2, <1>3 DEF LifecycleInv

(* A request that has ended, or a run past its orders, holds nothing.      *)
LEMMA NothingHeld ==
    ASSUME NEW at \in {"idle", "done"}, NEW stage \in {"idle", "ordered"}
    PROVE  /\ NoCancel(at) \in [at : {"idle", "read", "sent", "done"}, filled : 0..Qty, known : BOOLEAN]
           /\ NoCancel(at).filled = 0
           /\ NoManual(at) \in Desk
           /\ NoManual(at).status = "pending_new"
           /\ EmptyRun(stage) \in Runs
           /\ EmptyRun(stage).order = NoOrder
<1>1. NoOrder \in BrokerOrder /\ "pending_new" \in Statuses
  BY DEF NoOrder, BrokerOrder, BrokerStatuses, Statuses, Initial
<1>2. /\ NoCancel(at) \in [at : {"idle", "read", "sent", "done"}, filled : 0..Qty, known : BOOLEAN]
      /\ NoCancel(at).filled = 0
  BY DEF NoCancel
<1>3. NoManual(at) \in Desk /\ NoManual(at).status = "pending_new"
  BY <1>1 DEF NoManual, Desk
<1>4. EmptyRun(stage) \in Runs /\ EmptyRun(stage).order = NoOrder
  BY <1>1 DEF EmptyRun, Runs
<1> QED
  BY <1>2, <1>3, <1>4

(* What a run holds after a step is what it held or nothing.               *)
LEMMA RunAtTruthful ==
    ASSUME LifecycleInv, NEW at \in {"listed", "known", "ordered"}
    PROVE  /\ RunAt(at) \in Runs
           /\ RunAt(at).order \in {recon.order, NoOrder}
           /\ Seen(RunAt(at).order)
           /\ RunAt(at).order.status = "none" => RunAt(at).order = NoOrder
<1>1. NoOrder \in BrokerOrder /\ NoOrder.filled = 0 /\ NoOrder.stamp = 0 /\ NoOrder.status = "none"
  BY DEF NoOrder, BrokerOrder, BrokerStatuses
<1>2. recon \in Runs /\ ReconTruthful /\ clock \in Nat /\ broker.filled \in Nat
  BY DEF LifecycleInv, TypeOK, Clock, BrokerOrder
<1>3. CASE at = "ordered"
  <2>1. RunAt(at) = EmptyRun("ordered")
    BY <1>3 DEF RunAt
  <2>2. RunAt(at) \in Runs /\ RunAt(at).order = NoOrder
    BY <2>1, NothingHeld
  <2> QED
    BY <1>1, <1>2, <2>2 DEF Seen
<1>4. CASE at # "ordered"
  BY <1>2, <1>4 DEF RunAt, Runs, ReconTruthful
<1> QED
  BY <1>3, <1>4

(* LifecycleInv is inductive: the broker and the clock, submit_order, the  *)
(* webhooks, the two cancellations, then the steps of a reconciliation run. *)
LEMMA LifecycleInductive ==
    ASSUME LifecycleInv, [Next]_vars PROVE LifecycleInv'
<1> USE DEF LifecycleInv, TypeOK, Runs, storeVars, brokerVars, actorVars
<1>1. CASE BrokerFills
  <2> DEFINE filled == broker.filled + 1
             order == [status |-> IF filled = Qty THEN "filled" ELSE "partially_filled",
                       filled |-> filled, stamp |-> clock]
  <2>1. broker.filled \in 0..Qty /\ broker.filled < Qty /\ broker.status # "filled"
        /\ submit \notin {"created", "placed"}
    BY <1>1 DEF BrokerFills, BrokerSound, Open, BrokerOrder, NoOrder
  <2>2. order \in BrokerOrder /\ order.status # "none" /\ order.stamp = clock
        /\ order.filled >= broker.filled
        /\ (order.status \in {"new", "partially_filled"} => order.filled < Qty)
    BY <2>1 DEF BrokerOrder, BrokerStatuses, Clock
  <2>3. Report("fill", order)
    BY <1>1 DEF BrokerFills
  <2> QED
    BY <1>1, <2>1, <2>2, <2>3, ReportKeepsInv DEF BrokerFills, EventKinds
<1>2. CASE BrokerCancels
  <2> DEFINE order == [status |-> "canceled", filled |-> broker.filled, stamp |-> clock]
  <2>1. broker.filled \in 0..Qty /\ broker.status # "filled" /\ submit \notin {"created", "placed"}
    BY <1>2 DEF BrokerCancels, BrokerSound, Open, BrokerOrder, NoOrder
  <2>2. order \in BrokerOrder
    BY <2>1 DEF BrokerOrder, BrokerStatuses, Clock
  <2> QED
    BY <1>2, <2>1, <2>2, ReportKeepsInv DEF BrokerCancels, EventKinds
<1>3. CASE Tick
  <2>1. clock' \in Clock /\ clock' >= clock /\ broker' = broker
    BY <1>3 DEF Tick, Clock
  <2>2. /\ RowNotAhead' /\ CancelTruthful' /\ ReconTruthful' /\ ManualTruthful'
        /\ \A e \in mail : e.order.status # "none" /\ Seen(e.order)'
    BY <1>3, <2>1, ForwardKeepsTruth DEF Tick, BrokerOrder
  <2>3. BrokerSound' /\ EventsTruthful' /\ TypeOK'
    BY <1>3, <2>1, <2>2 DEF Tick, BrokerSound, EventsTruthful, Open, Clock, BrokerOrder
  <2> QED
    BY <2>2, <2>3
<1>4. CASE SubmitAccepted \/ SubmitReplyLost
  <2> DEFINE order == [status |-> "new", filled |-> 0, stamp |-> clock]
  <2>1. submit \in {"created", "placed"}
        /\ submit' \in {"accepted", "rejected", "failed", "taken", "refused"}
        /\ Report("status", order)
        /\ UNCHANGED <<clock, storeVars, cancel, recon, manual>>
    BY <1>4 DEF SubmitAccepted, SubmitReplyLost, RefusedCall, SubmitCalls, BrokerTakesOrder
  <2>2. broker.filled = 0 /\ broker.status # "filled"
    BY <2>1 DEF BrokerSound, NoOrder
  <2>3. order \in BrokerOrder
    BY DEF BrokerOrder, BrokerStatuses, Clock
  <2> QED
    BY <2>1, <2>2, <2>3, ReportKeepsInv DEF EventKinds
<1>5. CASE SubmitRefused \/ SubmitCrashes
  <2>1. TypeOK' /\ broker' = broker /\ mail' = mail /\ clock' = clock
        /\ submit' \notin {"created", "placed"}
        /\ row' = row /\ cancel' = cancel /\ recon' = recon /\ manual' = manual
    BY <1>5 DEF SubmitRefused, RefusedCall, SubmitCrashes, SubmitCalls
  <2>2. RowNotAhead' /\ CancelTruthful' /\ ReconTruthful'
    BY <2>1 DEF RowNotAhead, RowWithinBroker, CancelTruthful, ReconTruthful, Seen
  <2> QED
    BY <2>1, <2>2, StoreKeepsInv
<1>6. CASE RecordAcceptance \/ RecordManualRefusal
  <2>0. /\ broker' = broker /\ mail' = mail /\ clock' = clock /\ deliveries' = deliveries
        /\ position' = position /\ submit' = "done"
        /\ cancel' = cancel /\ recon' = recon /\ manual' = manual
    BY <1>6 DEF RecordAcceptance, RecordManualRefusal, SubmitEnds
  <2>1. row' \in Rows /\ RowNotAhead'
    <3>1. ASSUME NEW status \in {"new", "pending_new", "failed"}, row' = Overwrite(row, status, clock)
          PROVE  row' \in Rows /\ RowNotAhead'
      <4>1. status \in Statuses /\ status # "filled"
        BY DEF Statuses, Initial, Submitted, Closed
      <4> QED
        BY <2>0, <3>1, <4>1, OverwriteKeepsRow
    <3>2. CASE row' = row
      BY <2>0, <3>2 DEF RowNotAhead, RowWithinBroker
    <3> QED
      BY <1>6, <3>1, <3>2 DEF RecordAcceptance, RecordManualRefusal
  <2>2. known' \in BOOLEAN
    BY <1>6, Zenon DEF RecordAcceptance, RecordManualRefusal
  <2>3. TypeOK' /\ CancelTruthful' /\ ReconTruthful'
    BY <2>0, <2>1, <2>2 DEF CancelTruthful, ReconTruthful, Seen
  <2> QED
    BY <2>0, <2>1, <2>3, StoreKeepsInv
<1>7. CASE RecordRefusal
  <2> DEFINE u == [status |-> submit, filled |-> 0, stamp |-> clock,
                   source |-> SourceManual]
  <2>1. u \in Rows /\ u.filled <= broker.filled /\ u.stamp <= clock /\ u.status # "filled"
    BY <1>7 DEF RecordRefusal, Rows, Statuses, Closed, Sources, Clock, BrokerOrder
  <2>2. row' = Cas(row, u) /\ broker' = broker /\ clock' = clock
    BY <1>7 DEF RecordRefusal, SubmitEnds
  <2>3. row' \in Rows /\ RowNotAhead'
    BY <2>1, <2>2, WriteKeepsRow
  <2>4. TypeOK' /\ CancelTruthful' /\ ReconTruthful'
    BY <1>7, <2>3 DEF RecordRefusal, SubmitEnds, CancelTruthful, ReconTruthful, Seen
  <2> QED
    BY <1>7, <2>3, <2>4, StoreKeepsInv DEF RecordRefusal, SubmitEnds
<1>8. ASSUME NEW e \in mail, StatusWebhook(e) \/ FillWebhook(e)
      PROVE  LifecycleInv'
  <2>1. e.order \in BrokerOrder /\ e.order.status # "none" /\ Seen(e.order)
    BY DEF EventsTruthful, Event
  <2>2. broker' = broker /\ mail' = mail /\ clock' = clock /\ UNCHANGED actorVars
        /\ deliveries' \in 0..MaxDeliveries
    BY <1>8 DEF StatusWebhook, FillWebhook, Receive
  <2>3. row' \in Rows /\ known' \in BOOLEAN /\ RowNotAhead'
    <3>1. CASE ApplyOrder(e.order, SourceWebhook)
      BY <2>1, <2>2, <3>1, ApplyKeepsRow DEF Sources
    <3>2. CASE UNCHANGED <<row, known>>
      BY <2>2, <3>2 DEF RowNotAhead, RowWithinBroker
    <3> QED
      BY <1>8, <3>1, <3>2 DEF StatusWebhook, FillWebhook
  <2>4. position' \in Nat
    <3>1. GreaterOf(0, e.order.filled - row.filled) \in Nat
      BY <2>1 DEF GreaterOf, BrokerOrder, Rows
    <3> QED
      BY <1>8, <3>1 DEF StatusWebhook, FillWebhook
  <2>5. TypeOK' /\ CancelTruthful' /\ ReconTruthful'
    BY <2>2, <2>3, <2>4 DEF CancelTruthful, ReconTruthful, Seen
  <2> QED
    BY <2>2, <2>3, <2>5, StoreKeepsInv
<1>9. CASE CancelRead
  <2>1. cancel' \in [at : {"idle", "read", "sent", "done"}, filled : 0..Qty, known : BOOLEAN]
        /\ cancel'.filled <= broker.filled
    <3>1. \/ cancel' = NoCancel("done")
          \/ cancel' = [at |-> "read", filled |-> row.filled, known |-> known]
      BY <1>9 DEF CancelRead
    <3>2. row.filled \in 0..Qty /\ row.filled <= broker.filled
      BY DEF RowNotAhead, RowWithinBroker, Rows
    <3>3. broker.filled \in 0..Qty
      BY DEF BrokerOrder
    <3> QED
      BY <3>1, <3>2, <3>3, NothingHeld
  <2>2. TypeOK' /\ RowNotAhead' /\ CancelTruthful' /\ ReconTruthful'
    BY <1>9, <2>1 DEF CancelRead, RowNotAhead, RowWithinBroker, CancelTruthful,
                      ReconTruthful, Seen
  <2> QED
    BY <1>9, <2>2, StoreKeepsInv DEF CancelRead
<1>10. CASE CancelAtBroker
  <2>1. cancel' \in [at : {"idle", "read", "sent", "done"}, filled : 0..Qty, known : BOOLEAN]
        /\ cancel'.filled <= broker.filled
    <3>1. cancel' = NoCancel("done") \/ cancel' = [cancel EXCEPT !.at = "sent"]
      BY <1>10 DEF CancelAtBroker
    <3> QED
      BY <3>1, NothingHeld DEF CancelTruthful, BrokerOrder
  <2>2. TypeOK' /\ RowNotAhead' /\ CancelTruthful' /\ ReconTruthful'
    BY <1>10, <2>1 DEF CancelAtBroker, RowNotAhead, RowWithinBroker,
                       CancelTruthful, ReconTruthful, Seen
  <2> QED
    BY <1>10, <2>2, StoreKeepsInv DEF CancelAtBroker
<1>11. CASE CancelRecord
  <2> DEFINE u == [status |-> "canceled", filled |-> cancel.filled,
                   stamp |-> clock, source |-> SourceManual]
  <2>1. u \in Rows /\ u.filled <= broker.filled /\ u.stamp <= clock /\ u.status # "filled"
    BY DEF CancelTruthful, Rows, Statuses, Closed, Sources, Clock
  <2>2. row' = Cas(row, u) /\ broker' = broker /\ clock' = clock
    BY <1>11 DEF CancelRecord
  <2>3. row' \in Rows /\ RowNotAhead'
    BY <2>1, <2>2, WriteKeepsRow
  <2>4. TypeOK' /\ CancelTruthful' /\ ReconTruthful'
    BY <1>11, <2>3, NothingHeld DEF CancelRecord, CancelTruthful, ReconTruthful, Seen, BrokerOrder
  <2> QED
    BY <1>11, <2>3, <2>4, StoreKeepsInv DEF CancelRecord
<1>12. CASE ReconFetchOrders \/ ReconLookupOrder
  <2>1. PICK order \in {broker, NoOrder, recon.order} :
             recon' \in Runs /\ recon'.order = order
    <3>1. NoOrder \in BrokerOrder
      BY DEF NoOrder, BrokerOrder, BrokerStatuses
    <3>2. CASE ReconFetchOrders
      BY <3>1, <3>2 DEF ReconFetchOrders
    <3>3. CASE ReconLookupOrder
      BY <3>1, <3>3, RunAtTruthful DEF ReconLookupOrder
    <3> QED
      BY <1>12, <3>2, <3>3
  <2>2. order \in BrokerOrder /\ Seen(order) /\ (order.status = "none" => order = NoOrder)
    BY <2>1 DEF BrokerSound, ReconTruthful, Seen, NoOrder, BrokerOrder, BrokerStatuses, Clock
  <2>3. UNCHANGED <<clock, row, known, position, broker, mail, deliveries, submit, cancel, manual>>
    BY <1>12 DEF ReconFetchOrders, ReconLookupOrder
  <2>4. TypeOK'
    BY <2>1, <2>2, <2>3
  <2>5. RowNotAhead' /\ CancelTruthful' /\ ReconTruthful'
    BY <2>1, <2>2, <2>3 DEF RowNotAhead, RowWithinBroker, CancelTruthful,
                            ReconTruthful, Seen
  <2> QED
    BY <2>3, <2>4, <2>5, StoreKeepsInv
<1>13. CASE ReconListRows
  <2>1. PICK at \in {"ordered", "listed"} : ReconStep("fetched", at)
    BY <1>13 DEF ReconListRows
  <2>2. TypeOK' /\ RowNotAhead' /\ CancelTruthful' /\ ReconTruthful'
    BY <1>13, <2>1, RunAtTruthful DEF ReconListRows, ReconStep, RowNotAhead, RowWithinBroker,
                                      CancelTruthful, ReconTruthful, Seen
  <2> QED
    BY <2>1, <2>2, StoreKeepsInv DEF ReconStep
<1>14. CASE ReconKnownOrder \/ ReconFoundOrder
  <2> DEFINE order == recon.order
  <2>1. /\ UNCHANGED <<clock, position, broker, mail, deliveries, submit, cancel, manual>>
        /\ recon' = RunAt("known") \/ recon' = RunAt("ordered")
    BY <1>14 DEF ReconKnownOrder, ReconFoundOrder, ReconApplyOrder, ReconStep
  <2>2. order \in BrokerOrder /\ Seen(order) /\ (order # NoOrder => order.status # "none")
    BY DEF ReconTruthful
  <2>3. row' \in Rows /\ known' \in BOOLEAN /\ RowNotAhead'
    <3>1. CASE order = NoOrder
      BY <1>14, <2>1, <3>1 DEF ReconKnownOrder, ReconFoundOrder, ReconApplyOrder, RowNotAhead, RowWithinBroker
    <3>2. CASE order # NoOrder
      <4>1. ApplyOrder(order, SourceReconciliation)
        BY <1>14, <3>2 DEF ReconKnownOrder, ReconFoundOrder, ReconApplyOrder
      <4> QED
        BY <2>1, <2>2, <3>2, <4>1, ApplyKeepsRow DEF Sources
    <3> QED
      BY <3>1, <3>2
  <2>4. TypeOK' /\ CancelTruthful' /\ ReconTruthful'
    BY <2>1, <2>3, RunAtTruthful DEF CancelTruthful, ReconTruthful, Seen
  <2> QED
    BY <2>1, <2>3, <2>4, StoreKeepsInv
<1>15. CASE ReconFetchPositions
  <2>1. TypeOK' /\ RowNotAhead' /\ CancelTruthful' /\ ReconTruthful'
    BY <1>15 DEF ReconFetchPositions, RowNotAhead, RowWithinBroker,
                 CancelTruthful, ReconTruthful, Seen, BrokerOrder
  <2> QED
    BY <1>15, <2>1, StoreKeepsInv DEF ReconFetchPositions
<1>16. CASE ReconStorePositions \/ ReconFails
  <2>1. /\ recon' = NoRun
        /\ UNCHANGED <<clock, row, known, broker, mail, deliveries, submit, cancel, manual>>
        /\ position' \in Nat
    BY <1>16 DEF ReconStorePositions, ReconFails
  <2>2. ReconTruthful'
    BY <2>1, NothingHeld DEF ReconTruthful, Seen, NoRun, NoOrder, BrokerOrder, Clock
  <2>3. TypeOK' /\ RowNotAhead' /\ CancelTruthful'
    BY <2>1, NothingHeld DEF RowNotAhead, RowWithinBroker, CancelTruthful, NoRun
  <2> QED
    BY <2>1, <2>2, <2>3, StoreKeepsInv
<1>17. CASE UNCHANGED vars
  <2>1. TypeOK' /\ RowNotAhead' /\ CancelTruthful' /\ ReconTruthful'
    BY <1>17 DEF vars, RowNotAhead, RowWithinBroker, CancelTruthful,
                 ReconTruthful, Seen
  <2> QED
    BY <1>17, <2>1, StoreKeepsInv DEF vars
<1>18. CASE ManualRead \/ ManualEnd
  <2>1. /\ UNCHANGED <<clock, row, known, position, broker, mail, deliveries, submit, cancel, recon>>
        /\ manual' \in Desk /\ (manual'.status = "filled" => broker.status = "filled")
    <3>1. "pending_new" \in Statuses /\ row.status \in Statuses
      BY DEF Statuses, Initial, Rows
    <3> QED
      BY <1>18, <3>1, NothingHeld DEF ManualRead, ManualEnd, ManualStep, Desk, RowNotAhead, RowWithinBroker
  <2>2. TypeOK' /\ RowNotAhead' /\ CancelTruthful' /\ ReconTruthful' /\ ManualTruthful'
    BY <2>1 DEF RowNotAhead, RowWithinBroker, CancelTruthful, ReconTruthful, Seen, ManualTruthful
  <2> QED
    BY <2>1, <2>2, StoreKeepsInv
<1>19. CASE ManualMark \/ ManualRecord
  <2>0. UNCHANGED <<clock, known, position, broker, mail, deliveries, submit, cancel, recon>>
    BY <1>19 DEF ManualMark, ManualRecord, ManualStep
  <2>1. PICK status \in {"pending_cancel", "canceled", manual.status} :
               row' = Overwrite(row, status, clock)
    BY <1>19 DEF ManualMark, ManualRecord
  <2>2. status \in Statuses /\ (status = "filled" => broker.status = "filled")
    BY <2>1 DEF Statuses, Active, Closed, Desk, ManualTruthful
  <2>3. row' \in Rows /\ RowNotAhead'
    BY <2>0, <2>1, <2>2, OverwriteKeepsRow
  <2>4. manual' \in Desk /\ (manual'.status = "filled" => broker.status = "filled")
    <3>1. "pending_new" \in Statuses
      BY DEF Statuses, Initial
    <3> QED
      BY <1>19, <3>1, NothingHeld DEF ManualMark, ManualRecord, ManualStep, Desk, ManualTruthful
  <2>5. TypeOK' /\ CancelTruthful' /\ ReconTruthful' /\ ManualTruthful'
    BY <2>0, <2>3, <2>4 DEF CancelTruthful, ReconTruthful, Seen, ManualTruthful
  <2> QED
    BY <2>0, <2>3, <2>5, StoreKeepsInv
<1> QED
  BY <1>1, <1>2, <1>3, <1>4, <1>5, <1>6, <1>7, <1>8, <1>9, <1>10, <1>11, <1>12,
     <1>13, <1>14, <1>15, <1>16, <1>17, <1>18, <1>19 DEF Next, Reconcile, ManualCancel

(* The inductive invariant holds in every reachable state.                 *)
LEMMA LifecycleInvariant == Spec => []LifecycleInv
<1>1. ASSUME Init PROVE LifecycleInv
  <2> USE <1>1 DEF Init
  <2>1. NoOrder \in BrokerOrder
    BY DEF NoOrder, BrokerOrder, BrokerStatuses
  <2>2. row \in Rows
    BY DEF Rows, Statuses, Initial, Sources, SourceReconciliation
  <2>3. clock \in Clock /\ mail \subseteq Event /\ deliveries \in 0..MaxDeliveries
    BY DEF Clock
  <2>4. /\ cancel \in [at : {"idle", "read", "sent", "done"}, filled : 0..Qty, known : BOOLEAN]
        /\ recon \in Runs
    BY <2>1, NothingHeld DEF NoRun
  <2>8. manual \in Desk
    BY NothingHeld
  <2>7. TypeOK
    BY <2>1, <2>2, <2>3, <2>4, <2>8 DEF TypeOK
  <2>5. BrokerSound /\ EventsTruthful /\ CancelTruthful /\ ManualTruthful
    BY NothingHeld DEF BrokerSound, EventsTruthful, CancelTruthful, ManualTruthful, Open, NoOrder
  <2>6. RowNotAhead /\ ReconTruthful
    BY NothingHeld DEF RowNotAhead, RowWithinBroker, ReconTruthful, Seen, NoOrder, NoRun
  <2> QED
    BY <2>7, <2>5, <2>6 DEF LifecycleInv
<1>2. LifecycleInv /\ [Next]_vars => LifecycleInv'
  BY LifecycleInductive
<1> QED
  BY <1>1, <1>2, PTL DEF Spec

(* The type invariant of the row, the webhooks in flight and the actors.   *)
THEOREM LifecycleTypeCorrect == Spec => []TypeOK
BY LifecycleInvariant, PTL DEF LifecycleInv

(* The row never claims more than the broker has done, whatever submit,    *)
(* webhooks, cancellations, manual controls and reconciliation write and   *)
(* in which order.                                                         *)
THEOREM RowNeverAheadOfBroker == Spec => []RowWithinBroker
BY LifecycleInvariant, PTL DEF LifecycleInv, RowNotAhead

(* No write takes filled_qty or last_updated_at back: the CAS takes the    *)
(* GREATEST quantity and refuses an older stamp, and the unconditional     *)
(* writes carry the time of now, which no stamp exceeds.                   *)
THEOREM RowNeverGoesBack == Spec => RowAdvances
<1> DEFINE Step == row'.filled >= row.filled /\ row'.stamp >= row.stamp
<1>1. ASSUME LifecycleInv, [Next]_vars PROVE Step
  <2> USE <1>1 DEF storeVars
  <2>0. /\ row \in Rows /\ row.filled \in Nat /\ row.stamp \in Nat /\ clock \in Nat
        /\ row.stamp <= clock
    BY DEF LifecycleInv, TypeOK, Rows, RowNotAhead, Clock
  <2>1. CASE row' = row
    BY <2>0, <2>1
  <2>2. CASE RecordAcceptance \/ RecordManualRefusal \/ ManualMark \/ ManualRecord
    <3>1. row' = row \/ \E s : row' = Overwrite(row, s, clock)
      BY <2>2 DEF RecordAcceptance, RecordManualRefusal, ManualMark, ManualRecord
    <3>2. ASSUME NEW s, row' = Overwrite(row, s, clock) PROVE Step
      <4>1. row'.filled = row.filled /\ row'.stamp = clock
        BY <3>2 DEF Overwrite
      <4> QED
        BY <2>0, <4>1
    <3> QED
      BY <2>1, <3>1, <3>2
  <2>3. ASSUME NEW u \in Rows, row' = Cas(row, u) PROVE Step
    BY <2>0, <2>3, CasEffect
  <2>4. CASE RecordRefusal
    <3>1. [status |-> submit, filled |-> 0, stamp |-> clock, source |-> SourceManual]
             \in Rows
      BY <2>4 DEF RecordRefusal, LifecycleInv, TypeOK, Rows, Statuses, Closed,
                  Sources, Clock
    <3> QED
      BY <2>3, <2>4, <3>1 DEF RecordRefusal
  <2>5. CASE CancelRecord
    <3>1. [status |-> "canceled", filled |-> cancel.filled, stamp |-> clock,
           source |-> SourceManual] \in Rows
      BY DEF LifecycleInv, TypeOK, Rows, Statuses, Closed, Sources, Clock
    <3> QED
      BY <2>3, <2>5, <3>1 DEF CancelRecord
  <2>6. ASSUME NEW e \in mail, StatusWebhook(e) \/ FillWebhook(e) PROVE Step
    <3>1. e.order \in BrokerOrder /\ e.order.status # "none"
      BY DEF LifecycleInv, TypeOK, EventsTruthful, Event
    <3>2. row' = row \/ row' = Cas(row, FromBroker(e.order, SourceWebhook))
      BY <2>6 DEF StatusWebhook, FillWebhook, ApplyOrder
    <3>3. FromBroker(e.order, SourceWebhook) \in Rows
      BY <3>1, FromBrokerTruthful DEF Sources
    <3> QED
      BY <2>1, <2>3, <3>2, <3>3
  <2>7. CASE ReconKnownOrder \/ ReconFoundOrder
    <3> DEFINE order == recon.order
    <3>1. order \in BrokerOrder /\ (order # NoOrder => order.status # "none")
      BY DEF LifecycleInv, TypeOK, Runs, ReconTruthful
    <3>2. \/ row' = row
          \/ order # NoOrder /\ row' = Cas(row, FromBroker(order, SourceReconciliation))
      BY <2>7 DEF ReconKnownOrder, ReconFoundOrder, ReconApplyOrder, ApplyOrder
    <3>3. order # NoOrder => FromBroker(order, SourceReconciliation) \in Rows
      BY <3>1, FromBrokerTruthful DEF Sources
    <3> QED
      BY <2>1, <2>3, <3>2, <3>3
  <2> QED
    BY <2>1, <2>2, <2>4, <2>5, <2>6, <2>7
       DEF Next, Reconcile, ManualCancel, vars, BrokerFills, BrokerCancels, Tick, SubmitAccepted,
           SubmitRefused, SubmitReplyLost, RefusedCall, SubmitCalls, SubmitCrashes,
           ManualRead, ManualEnd, CancelRead, CancelAtBroker, ReconFetchOrders, ReconListRows,
           ReconLookupOrder, ReconFetchPositions, ReconStorePositions, ReconFails
<1>2. LifecycleInv /\ [Next]_vars => [Step]_vars
  BY <1>1
<1> QED
  BY <1>2, LifecycleInvariant, PTL DEF Spec, RowAdvances

(* A row closed without a fill is never rewritten by a webhook,            *)
(* cancel_order, a reconciliation run or a refusal of submit_order: these  *)
(* go through the CAS.  It changes only through update_order_status: the   *)
(* record of the broker's acceptance and the manual controls.              *)
THEOREM ClosedRowsAreLocked == Spec => ClosedRowLocked
<1> DEFINE Step == row.status \in Closed /\ row' # row =>
                      \/ submit \in {"accepted", "taken", "refused"} /\ submit' = "done"
                      \/ manual' # manual
<1>1. ASSUME TypeOK, [Next]_vars, row.status \in Closed, row' # row
      PROVE  \/ submit \in {"accepted", "taken", "refused"} /\ submit' = "done"
             \/ manual' # manual
  <2>1. \A u : Cas(row, u) = row
    BY <1>1, CasLocksClosed
  <2> USE <1>1, <2>1 DEF storeVars, ApplyOrder
  <2>2. ~RecordRefusal /\ ~CancelRecord /\ ~ReconKnownOrder /\ ~ReconFoundOrder
    BY DEF RecordRefusal, CancelRecord, ReconKnownOrder, ReconFoundOrder, ReconApplyOrder
  <2>3. ASSUME NEW e \in mail PROVE ~StatusWebhook(e) /\ ~FillWebhook(e)
    BY DEF StatusWebhook, FillWebhook
  <2>4. CASE RecordAcceptance \/ RecordManualRefusal
    BY <2>4 DEF RecordAcceptance, RecordManualRefusal, SubmitEnds
  <2>5. CASE ManualCancel
    <3>1. CASE ManualMark \/ ManualRecord
      <4>1. manual.at # manual'.at
        BY <3>1 DEF ManualMark, ManualRecord, ManualStep, NoManual, TypeOK, Desk
      <4> QED
        BY <4>1
    <3> QED
      BY <2>5, <3>1 DEF ManualCancel, ManualRead, ManualEnd
  <2> QED
    BY <2>2, <2>3, <2>4, <2>5
       DEF Next, Reconcile, vars, BrokerFills, BrokerCancels, Tick, SubmitAccepted,
           SubmitRefused, SubmitReplyLost, RefusedCall, SubmitCalls, SubmitCrashes,
           CancelRead, CancelAtBroker, ReconFetchOrders,
           ReconListRows, ReconLookupOrder, ReconFetchPositions, ReconStorePositions,
           ReconFails
<1>2. TypeOK /\ [Next]_vars => [Step]_vars
  BY <1>1
<1> QED
  BY <1>2, LifecycleTypeCorrect, PTL DEF Spec, ClosedRowLocked
=============================================================================
