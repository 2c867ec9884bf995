# A formal model of the trading platform

TLA+ modules that model the trading platform's execution core, its risk
controls, alert delivery and model hot reload, the TLC configurations that check
them on small instances, and TLAPS proofs of what matters most for every size of
the system. `PROJECT.json` holds the same
information for tools: components, runs, mutants, the map from definitions to
source lines, findings, hazards and theorems.

Paths below are relative to the repository; `EG` stands for
`apps/execution_gateway`, `RM` for `libs/trading/risk_management`.

Contents: [the system](#1-the-system), [modules](#2-modules-and-the-code),
[runs](#3-runs), [bounds](#4-bounds), [fairness](#5-fairness),
[proofs](#6-proofs), [divergences](#7-divergences-between-code-and-documentation),
[what is left out](#8-what-is-left-out), [plan](#9-plan).

## 1. The system

Models produce signals, an orchestrator turns them into orders, and the
execution gateway sends the orders to a broker (Alpaca). Several worker
processes of the gateway, the risk monitors and the web console share two
stores: PostgreSQL holds orders, positions and audit rows, Redis holds the risk
controls and the reservations. Nothing but those stores coordinates them, so
what is hard is always the same: a process reads a store, awaits something, and
writes a store; meanwhile others write it, a call fails or its reply is lost, a
process stops, Redis restarts without its data, or the broker's webhook comes
late, twice or never.

### Inventory

| Component | State | Operations | What makes it correct |
| --- | --- | --- | --- |
| Position reservation (`RM/position_reservation.py`) | Redis: one aggregate per symbol, one expiring token per request | reserve, release, confirm (Lua, atomic) | the aggregate never falls below what the account may come to hold; no executed position beyond the limit |
| Order submission (`EG/routes/orders.py`, `submit_order`) | the handler's progress; rows, reservations, broker orders | ten gates, reserve, insert, broker call, confirm or release, status update | one broker call per `client_order_id`; every exit that no raising call cuts short settles the reservation; a live order keeps its reservation |
| Order row (`EG/database.py`) | status, `filled_qty`, `last_updated_at`, `source_priority` | `update_order_status`, `update_order_status_cas` | older news never replaces newer; closed rows stay closed |
| Webhooks (`EG/routes/webhooks.py`) | order row, positions row | fast path, fill path under the row lock | every fill moves the position once |
| Cancellation (`EG/routes/orders.py`, `cancel_order`) | order row | read, broker cancel, CAS | the row never contradicts the broker |
| Reconciliation (`EG/reconciliation/`) | order rows, positions, high-water mark, startup gate, orphan rows, quarantine key | startup run, periodic runs, forced gate, orphan detection, position snapshot | rows and positions converge to the broker's; no own order is taken for an orphan; an open gate means reconciled; the mark leaves nothing out |
| Circuit breaker (`RM/breaker.py`, `libs/web_console_services/cb_service.py`) | Redis: state with trip count; trip history | trip, reset, initialize, migrate, history and stamp | the calls of all clients look atomic; every halt is on record |
| Kill switch (`RM/kill_switch.py`) with the recovery manager, admin and health endpoints | Redis: state, history; per process: the instance and the flag `kill_switch_unavailable` | construct, engage, disengage, recover | an engaged switch blocks every gateway until disengaged; a lost state fails closed; a gateway reopens |
| Order modification (`EG/routes/orders.py`, `EG/reconciliation/modifications.py`) | `order_modifications`, both order rows, the extra reservation | insert pending, reserve, broker replace, finalize, settle | the answer fits what the broker did; rows and entry change together; no entry stays pending |
| TWAP slicer and slice scheduler (`EG/order_slicer.py`, `EG/slice_scheduler.py`, `EG/routes/slicing.py`) | parent and slice rows, jobs in memory | plan, store, schedule, compensate, execute with guards and retries, cancel, recover zombies | the plan covers the order; a canceled slice is not sent, a live one not sent again; every slice comes to an end |
| Manual controls (`EG/api/manual_controls.py`) | order row | cancel, cancel-all: mark, broker cancel, close or revert; submit a manual order: insert, broker call, status | no share claimed that the broker has not filled; nothing taken back |
| Fat-finger validation, pre-trade checker | thresholds | comparisons | thresholds |
| Signal service, model hot reload (`apps/signal_service`) | current model and metadata, pending validation, validation threads | poll, endpoint, startup load; shadow validation in a thread | a loaded model is replaced only by one validated against it; the service ends with the active version |
| Orchestrator, market data | runs; subscriptions | one run; stream | retries are safe |
| Alert delivery (`libs/platform/alerts`, `apps/alert_worker`) | delivery rows, RQ jobs, queue depth | trigger, enqueue, claim, attempt, hand over, poison | one sender at a time, bounded sends, a depth that balances, every delivery settled |
| Data pipeline file lock (`libs/data/data_providers/locking.py`) | a lock file | acquire, refresh, recover a stale lock | one holder |
| Backtests, research, registry, console UI, authentication | various | various | outside this project (section 8) |

### How they interact

`submit_order` calls the recovery manager's flags, kill switch, breaker,
quarantine and reconciliation gates, then reserves, looks the
`client_order_id` up, validates, inserts, calls the broker, and confirms or
releases. From the insert on, webhooks, `cancel_order`, the manual controls and
reconciliation write the same row; `submit_order` and the manual controls write it
without looking at it. The health endpoint repairs the gateway's risk controls. Halts
are set from other processes through Redis at any moment. The hazards that
follow from this are listed in `PROJECT.json`, each at the line where it bites.

## 2. Modules and the code

```
PositionReservation <- SubmitOrder    <- MCSubmitOrder, SubmitOrderProofs
OrderRow            <- OrderLifecycle <- MCOrderLifecycle, OrderLifecycleProofs
TwapPlan            <- SliceScheduler <- MCSliceScheduler, SliceSchedulerProofs
AtomicBreaker  (refined by)  CircuitBreaker <- MCCircuitBreaker
AtomicReplace  (refined by)  ModifyOrder    <- MCModifyOrder, ModifyOrderProofs
KillSwitch           <- MCKillSwitch
KillSwitch, CircuitBreaker <- TradingHaltProofs
OrphanReconciliation <- MCOrphanReconciliation, OrphanReconciliationProofs
AlertDelivery        <- MCAlertDelivery, AlertDeliveryProofs
ModelReload          <- MCModelReload, ModelReloadProofs
```

An arrow is EXTENDS. A component's module holds its state, actions and
properties; a definition whose comment begins with "Mutant:" is a plausible bug
in the definition after it, which some property must catch. The MC modules only
add symmetry sets and the sets of quantities.

**PositionReservation.** `aggregate` and `token` are the two kinds of Redis
keys. `Reserve`, `Release` and `Confirm` are the three Lua scripts, `ExpireToken`
the TTL (only the token key has one), `LoseKeys` a Redis that restarts empty.

**SubmitOrder** composes the reservation with the handler. Each request has a
program counter over the handler's calls: `CheckHalts` (gates 1 to 5),
`CheckAdmission` (6, 7), `ReadPosition` and `ReservePosition` (8),
`CheckIdempotency` (9), `CheckFatFinger` (10), `CreateOrder` with the
unique-key path for concurrent duplicates, `SkipBroker` (DRY_RUN or no client),
the three outcomes of the broker call, `ConfirmReservation`, `RecordAcceptance`,
`ReleaseRefused`, `RecordRefusal`. A `DatabaseError` may occur at either
database call, a call may raise where no branch undoes the reservation
(`CallRaises`: the request is answered 500, and a Redis call may have acted
before it raised), and the worker may stop at any point (`Crash`). Halts change, tokens expire, orders
fill or close and Redis restarts at any time. `row`, `status` are the orders
table, `broker` the broker's book (external), `calls` the history of broker
calls.

**OrderRow** is the conflict resolution of the orders table: `StatusRank`,
`CasAccepts` (the WHERE clause), `CasWrite` (the SET clause), `Overwrite`
(`update_order_status`).

**OrderLifecycle** is one order from its insert on: the end of `submit_order`
or of `_submit_live_manual_order` (`submit` starts as `created` or `placed`),
webhooks (`StatusWebhook`, `FillWebhook`), `cancel_order` in three steps, the
cancellation of the manual controls (`ManualRead`, `ManualMark`, `ManualRecord`,
`ManualEnd`: mark the row `pending_cancel`, ask the broker, and close the row,
revert it to the status that was read, or leave it to a webhook), and
one reconciliation run in seven steps, any of which may fail (`ReconFails`).
The broker is external: it fills share by share, cancels, stamps each change
with the time and puts an event into `mail`, from which any event is delivered
any number of times, in any order, or never.

**CircuitBreaker** has one action per Redis round trip: reading under WATCH,
EXEC (which fails when the key was written since: `broken`), the history append,
the stamp of a reset with its own WATCH, initialization and migration with no
WATCH. `Disconnect` is a call that fails before Redis acts, `LoseExecReply` one
that fails after; both lead to a retry from the start or to giving up. The run may
start from the document of an older release, with the trips it counts
(`StartTrips`, at least one unless the breaker is OPEN) and their entries
(`StartHistory`). Three histories name what the code lets happen: `overwriter`, the clients whose bare
SET is about to hide what others wrote; `unlogged`, the trips whose client
was told of an error before it appended the entry; and `restored`, the trips an
overwriting migration counted again.

**AtomicBreaker** is the promise: every transition one atomic step, the
overwriting SET of an initialization or a migration included as an action of its
own (`Overwrite`). `CircuitBreaker!AtomicBreakerSpec` is its instance.

**KillSwitch** has one action per Redis call of a gateway process: `Start`,
`StartOffline` (Redis is down: the process has no client for life, and `client`
is the set of those that have one), `Construct` (GET), `Initialize` (SET), `Check`, `Recover` (health endpoint, only with a client),
`Command` (the Lua script behind engage and disengage), `Log` (history push),
`Report`. `instance` and `unavailable` are the fields of each process's
recovery manager. `Stop`, `CallFails`, `CommandReplyLost` and `LoseKey` are the
faults. `commands` is a history of what took effect, `losses` counts the times
the key was missing.

**TwapPlan** is the arithmetic of `TWAPSlicer.plan`: number of slices, interval,
and the set of ways to hand out the remaining shares (the code picks one by a
seed). **SliceScheduler** follows a TWAP order from its request: `AcceptRequest`,
`StorePlan`, `SchedulePlan` and the compensation of a plan that could not be
scheduled; the job of a slice, `Fire`, `ReadRow`, `CheckHalts`, `Guard`, then
`Place`, `Rejected`, `NotReached` or `ReplyLost`, then `Record`;
`CancelRows` and `RemoveJobs` (`cancel_remaining_slices`), `CancelParent`
(`cancel_order`). `Restart` loses the jobs and keeps the rows; `Reconcile` opens
the gate, behind which `BeginRecovery` to `FinishRecovery` are
`recover_zombie_slices`, one slice at a time.

**ModifyOrder** is `modify_order` for several requests on one order: `Validate`,
`Insert` (the locked transaction), `Reserve`, the broker's replacement with its
failures and lost replies, `Finalize`; reconciliation `LookUp` and `Settle`
entries left pending. `Increases` and `Reducing` say what the properties need of
a modification. **AtomicReplace** is its promise: a modification takes effect
or is refused, and what the caller and the table are told fits.

**OrphanReconciliation** is the startup gate and a reconciliation run as a
thread of five calls (`Begin`, `ListOpen`, `ListRecent`, `ReadKnown`, then
`RecordOrphan` and `Shield` per orphan, `EndRun`), while own orders, the
replacements of modifications and foreign orders appear at the broker and end.
`old` stands for the high-water mark: the orders a listing after it leaves out.
A listing is not complete: `get_orders` pages with an exclusive cursor, and a fault
may make it leave orders out (`Skips`); `missed` is the history of those that were
left out when a run ended. `client` says whether the process has a Redis client; one
that started without (`Restart`) never sets the key (`Shield`) and refuses orders.
`FailRun` ends a run anywhere, `ForceComplete` is the operator's endpoint.

**AlertDelivery** has the submitter of each delivery (`Trigger`, `CountSlot`,
`Enqueue`, `UndoSlot`, `MarkFailed`) and workers that take RQ jobs (external):
`Claim`, `CheckLimits`, `Send`, `Record`, `HandOver` to the retry scheduler,
`Poison`, `Release`. A worker whose hand-over failed aborts the job or, when the
delivery was only rate-limited, writes the row back and goes on (`Resume`).
Workers die (`WorkerDies`), calls fail (`HandOverFails`, `DatabaseFails`); the
job is then in RQ's registry of failed jobs (`failed`), from which an operator
may requeue it (`Requeue`). The calls of the counter fail too: `SubmitFails` ends
`_enqueue_deliveries` half-way for a batch, because its process stops or because an
increment, the decrement after a failed enqueue or the mark of the row raises;
`ReleaseFails` is a worker's decrement that raises; in both the counter may have
changed or not. `CountRows` and `SetDepth` are the recount of a starting worker,
between which slots come and go. `doubled`, `resumed`, `lost`
and `drifted` are histories of the deliveries and slots that a lost reply, a
failed hand-over, a raising call or a dead process touched.

**ModelReload** is `reload_if_changed` for its three callers (`ReadActive`,
`Compare`, `Supersede`, `Load`, `Pend`, `Capture`), split where the validation
thread can come in between, and the thread itself (`StartValidation`,
`Validate`, `Activate`, `FinishActivation`, `Discard`, `ValidationError`).
`Unlocked` is `_shadow_state_lock`. The registry publishes and rolls back
versions (external).

Values are abstracted to what the properties distinguish: an order is a signed
quantity, a timestamp a small number, a Redis document the fields that steer
control. Operator names, reasons, prices and wording are left out.

## 3. Runs

| Run | Distinct states | Shows |
| --- | --- | --- |
| `submit_limits` | 3.2 million | three buys over two ids: `AggregateCoversExposure`, `ExecutedWithinLimit`, `LiveOrderNeverReleased` |
| `submit_faults` | 1.0 million | two requests of either side, lost replies, Redis restarts: `AtMostOneSubmission`, `ExistingOrderMatches`, `AnsweredHoldsNoToken` |
| `order_safety` | 2.4 million | all writers of one row, the manual controls included: `RowWithinBroker`, `RowAdvances`, `ClosedRowLocked` |
| `order_heals` | 191 thousand | `PositionHeals`, `ClosedOrderSettles`: whatever webhooks are lost or counted twice, position and status settle at the broker's |
| `breaker` | 141 thousand | `AtomicBreakerSpec` (refinement) and `TripsRecorded` through connection errors, lost replies, flushes, several initializing operators and the migration of an older state |
| `kill_switch` | 37 thousand | `HaltHolds`, `OnlyConstructionInitializes`, `GatewayReopens` through restarts, starts without Redis, failed calls and a lost key |
| `slices` | 298 thousand | `PlanCoversOrder`, `CancelHolds`, `NeverSubmittedTwice`, `LiveSliceStaysOpen`, `ExpiredParentIsOver`, `SlicesResolve` |
| `modify` | 79 thousand | `ImplementsPromise` (refinement), `CompletedIsRecorded`, `ReplacementCovered`, `PendingSettles` |
| `orphans` | 1.5 million | `OwnOrderIsKnown`, `MarkLeavesNothingOut`, `GateMeansReconciled`, `OpenOrphanQuarantined`, `CatchesUp` |
| `alerts` | 153 thousand | `OneSender`, `SendsBounded`, `SlotsBalance`, `DeliverySettles` |
| `reload` | 94 thousand | `SwitchIsValidated`, `MetadataNameModel`, `ValidationSettles`, `Converges` |
| `submit_lost_reply` | violation | a reply lost after the broker acted: the reservation of a live order is released |

`TypeOK` is checked by `slices`; for all modules it is proved (section 6).
The properties in words:

* `AggregateCoversExposure`: with buy orders only, the aggregate is at least the
  position plus all live orders plus all undecided reservations. This is the
  invariant behind the limit; `ExecutedWithinLimit` is its consequence. The
  shares of a set of requests are counted as a set of pairs (`Shares`), not as a
  sum.
* `LiveOrderNeverReleased`: once the broker holds an order, its handler is on no
  path that releases. It holds while replies arrive, and fails when one is lost.
* `AtMostOneSubmission`: the primary key, not the earlier lookup, decides which
  of two concurrent requests calls the broker.
* `AnsweredHoldsNoToken`: every exit of the handler confirms or releases, except
  where a call raised outside every branch that would (`CallRaises`): such a
  request is answered 500 and its token stays until it expires, also when
  `confirm()` raised for an order that is live (section 7, `LiveOrderConfirmed`).
* `RowWithinBroker`, `RowAdvances`, `ClosedRowLocked`: the row never claims a
  share the broker has not filled, never loses quantity or time, and a row closed
  without being filled is changed by no webhook, `cancel_order`, reconciliation
  run or refusal, but only by the writers that do not look at it: the record of
  an acceptance, the record of a manual order and the manual cancellations.
* `ClosedOrderSettles`: the row of an order the broker closed is closed in the
  end, unless it carries a stamp newer than the broker's last word.
* `TripsRecorded`: every trip the state counts has its history entry, or a
  client about to append it, or its client was told of an error (`unlogged`), or
  a late migration wrote its count back after Redis lost the history (`restored`).
* `HaltHolds`: after an engagement takes effect and until a disengagement does,
  no gateway is in a state in which gates 1 and 4 let an order through, as long
  as the key was never missing.
* `OnlyConstructionInitializes`: no command, report or check makes a missing state
  ACTIVE. The construction of a switch object does, at a start and also on the
  health endpoint of a process whose first construction failed. `GatewayReopens`:
  a gateway that failed closed reopens, unless it was started without a Redis
  client.
* `CancelHolds`: a slice canceled before its job's last look at the row never
  reaches the broker. `NeverSubmittedTwice` and `LiveSliceStaysOpen`: after a
  restart, recovery behind the reconciliation gate neither submits a slice the
  broker has nor closes its row to the broker's news (the row may still read
  `pending_new` or `canceled` until that news comes); a gate forced open and a
  submission that looked failed are the exceptions, and both are real.
* `ExpiredParentIsOver`: an expired parent has no slice with a job or an open row,
  and, unless the gate was forced, the broker has none of its slices but those
  whose accepted submission looked failed.
* `SlicesResolve`: a pending slice is executed, blocked, canceled or expired in
  the end, unless a fault ended its job or a restart lost it while its parent's
  status keeps recovery away.
* `ImplementsPromise`: through retries of a key, crashes, failed writes and
  reconciliation, what a modification's entry says fits what the broker did.
* `OwnOrderIsKnown` depends on the order of four calls in two processes: row
  before broker, and broker's list before known ids.
* `MarkLeavesNothingOut`, `GateMeansReconciled`, `CatchesUp`: no failed run
  moves the mark past an order that was not seen, the gate opens only behind a
  complete run unless forced, and every start catches up while the loop lives.
  Excepted by name are the orders that ended before the first mark and those a
  page boundary hid from the run. `OpenOrphanQuarantined`: an orphan that stays
  open is quarantined, while the loop lives and the process has a Redis client.
* `OneSender`, `SendsBounded`: a delivery may have several jobs, after an enqueue
  whose reply was lost or a requeue; the claim still lets one worker send it at
  a time, and the attempts recorded in the row bound the calls of the channel
  over all jobs. A delivery that was resumed without a claim is the exception.
* `SlotsBalance`: the queue depth is the number of slots held by submitters,
  jobs and workers, on every path through failed enqueues, database errors,
  retries and hand-overs, until one of these parts the two: a process stops while it
  holds a slot, a call of the counter raises, a call that raised had added a job, an
  operator requeues a job, or a recount sets the counter to other than the slots.
* `DeliverySettles`: a stored delivery is delivered or fails for good, unless a
  fault took its job (`lost`) or gave it a second one (`doubled`).
* `SwitchIsValidated`: the model a validation thread puts in place was validated
  against exactly the model it replaces.
* `Converges`: if the active version stays and passes, the service ends with it,
  also when a rollback during a validation first activated the wrong one.

## 4. Bounds

The bounds are constants of the modules, named there.

* Three requests over two ids are enough for a duplicate pair and a third
  request that competes for the limit; `MaxLimit = 3` with quantities 1 and 2
  makes some pairs fit and others not. Lost replies and Redis restarts multiply
  the states, so `submit_faults` has two requests; its properties are proved for
  any number.
* `Qty = 2` gives partial fills, `MaxClock = 2` stamps that are older, equal
  and newer, `MaxDeliveries = 2` an early and a late or repeated webhook.
  `BothCancels = FALSE` lets a behaviour have a `cancel_order` or a manual
  cancellation, not both, which halves the time; with `BothCancels = TRUE`, and with
  `MaxClock = 3`, the run passes too but takes longer. The proofs cover all values.
  `order_heals` uses `Qty = 1`, two times and two deliveries because TLC's
  liveness check with seven fairness conditions dominates; a lost, a late and a
  double-counted webhook already happen there.
* Three breaker clients give two that conflict and one that breaks a watch in
  between. The run starts from the state an older release left, with one trip
  counted, so migrations race with trips; `MaxTrips = 2` leaves one more, three
  pass as well.
* Two gateways give a restart of one while the other serves a command, two
  losses of the key a loss after a restart; four commands two engagements.
* `slices` has two orders: five shares in a minute, which is one slice by its
  interval and two by the liquidity cap, with a share left over; and three
  shares in half a minute, a single slice exactly at the cap. One request meets
  either no plan or a plan stored earlier, so it also arrives as a duplicate;
  one restart, two attempts and two faults give a retry that fails after a
  restart. The plan's arithmetic is checked on those orders and proved for all.
* Four requests with three keys give a retry of a key, two modifications side
  by side, one of them larger; three faults give a crash, a failed write and a
  failed release in one behaviour.
* One order of each kind, two faults (failed calls, incomplete listings) and one
  restart, with or without Redis, in `orphans`: the
  cases are orders that appear, end or get their row between any two calls.
* Two deliveries and two workers give a repeated job and a busy queue
  (`MaxDepth = 2`, `ResumeDepth = 1` give the hysteresis); two attempts a retry
  and a last attempt. One fault per behaviour; with one delivery and two faults the
  run passes as well, and the safety properties are proved for any number.
* Three versions, one of which fails its validation, three publications and two
  threads give a superseded validation that ends late and a rollback during one.

Symmetry is used for requests, clients and gateways only in runs without
liveness properties.

## 5. Fairness

`OrderLifecycle!FairSpec`: `run_periodic_loop` starts a run every poll interval
(`WF` on `ReconFetchOrders`), and a run's calls do not fail for ever (`SF` on
each step of the run, since a failure returns it to the start). No fairness is
assumed of the broker, webhooks, `submit_order` or `cancel_order`.
`PositionHeals` says the position settles once deliveries stop, which the bound
on them makes happen.

`KillSwitch!FairKillSwitchSpec`: a stopped process is started again, a command in progress
goes on (`WF` on `Start` or `StartOffline`, `Log`, `Report`), the health endpoint is polled and
calls to Redis do not fail for ever (`SF` on `Recover`, `Construct`,
`Initialize`, `Check`). Operators need not do anything.

`SliceScheduler!FairSpec`: an accepted request runs to its end, jobs fire and
their threads proceed, reconciliation and recovery are started with the process
(`WF` on each). `ModifyOrder!FairSpec`: a handler runs to its end unless the
process stops (`WF`), and the periodic reconciliation takes up every stale entry
(`SF` on `LookUp`, which another entry's lookup disables). `OrphanReconciliation!FairSpec`:
a run is started while the startup gate is closed or the periodic loop lives,
and a started run goes on (`WF` on `Begin` and `RunStep`).
`AlertDelivery!FairSpec`: submitters and workers proceed (`WF`), and a job that
stays queued is taken in the end even if workers are busy at times (`SF` on
`TakeJob`: RQ serves its queue in order); nothing makes a worker's job come back
that RQ does not requeue.
`ModelReload!FairSpec`: calls and threads run to their ends (`WF`), and the
polling task gets its turn in the event loop (`SF` on `ReadActive("poll")`,
which calls of the endpoint disable; asyncio runs ready tasks in order).

All faults are bounded, so "no fault for ever" is a consequence of the bounds
and not of the fairness, except where `SF` is named above.

## 6. Proofs

All theorems hold for every value of the constants that satisfies the modules'
assumptions (types of the constants; `Absent` is neither a number nor a
request; the sets of requests and of workers are finite, since their shares and
slots are counted), and for any number of requests, clients and gateways.
Together with TLC's runs this settles every safety property of the project: each
one that a passing run checks is also a theorem.

**SubmitOrderProofs.** `AtMostOneSubmission` is not inductive: nothing in it
says that a request calling the broker owns the row. `SubmissionInv` adds
`CallerOwnsRow` (a request past the insert, or one that called the broker, is
the request its row names), `RowHasCreator`, `BrokerHasRow`, `RefusalDecided`
and `TokenHolders` (a token belongs to a request between reserve and its
settlement, or to one that crashed or was ended by a raising call). From it: `TypeCorrect`,
`SubmittedAtMostOnce`, `IdempotentReplyMatches`, `TokensReturned`.
`AcceptedOrdersKeepReservation` is `LiveOrderNeverReleased` under the hypothesis
that no reply of the broker is lost, without which `submit_lost_reply` refutes
it. `AnsweredInv` adds that a request has no answer before a refusal or its end,
and that the creator of a live order's row is past the broker's answer.

`ReservationCoversExposure` is `AggregateCoversExposure` under the hypothesis
`OneSided` (quantities are not negative, replies arrive, Redis keeps its data):
section 7 has the counterexamples without it. The property is not inductive,
because it does not say which share of the aggregate belongs to whom. `CoverInv`
counts the shares of the requests in `Committed`: those with a live order, and
those without an order yet that hold a token or whose handler is between the
reservation and its return. A reserving script adds one request to that set and
its delta to the aggregate, a release takes both away, a fill moves the delta
from the set to the position, and a confirmation or an expired token adds none. `TokenMatches`, `RowOfItsId`
and `Unreserved` say why a release finds its own delta and no request is counted
twice. The exposed requests are among the committed ones. The lemmas
`CoveredAsBefore`, `CoveredWithout` and `CoveredWith` are the arithmetic, from the
library's theorems on cardinalities. `PositionWithinLimit` is
`ExecutedWithinLimit` under the same hypothesis and a start within the limit: the
aggregate that the reserving script compares with the limit bounds the position.

**OrderLifecycleProofs.** Lemmas state what the CAS does (`CasEffect`,
`CasLocksClosed`). `LifecycleInv` says that everything in flight is the truth
about some past of the broker: events in `mail`, what a reconciliation run
holds and what `cancel_order` read claim no more than the broker has now, and
no stamp exceeds the clock. From it: `LifecycleTypeCorrect`,
`RowNeverAheadOfBroker`, `RowNeverGoesBack`, and, from the CAS lemma alone,
`ClosedRowsAreLocked`. The manual controls enter it as writers that change the
status and the stamp and nothing else.

**TradingHaltProofs** holds the theorems on both halts. *Breaker:* the heart is
`WatchInv`: a client about to EXEC with
an unbroken watch has read exactly the present state, in a mode its transaction
may leave; a client about to initialize has seen nothing, one about to migrate
has seen `Legacy`, the one document an older release can have left.
`BreakerIsAtomic` is the refinement for any number of clients, with no
hypothesis on who initializes or migrates: the bare SETs map to the abstract
`Initialize`, `Migrate` or `Overwrite`. `TripsAreRecorded` is inductive together
with `WatchInv`; it holds for every state at the start (`StartRecorded`: the
history of an older release has the trips its document counts). Its lemmas `AppendRecords` and `StampRecords` say that an
append adds the entry of its trip and that a stamp loses none.

*Kill switch:* `EngagedHaltHolds`: `KeyInv` says that as long as the key
was never missing it carries the last command and no process is about to
initialize it; a process that constructs its switch then finds the key.
`OnlyConstructorsInitialize` needs no hypothesis: `ConstructInv` says that
a constructing process has no instance yet.

**ModifyOrderProofs.** `HandlerInv` says that a handler in progress owns its
pending entry: no other handler has its key, reconciliation has not taken it up,
and the broker has replaced the order exactly if the handler is about to
finalize. That is why it may refuse or complete without looking at the entry
again. `EntryInv` relates the entries to the broker's book, `LookedInv` says that
what reconciliation read is still true when it writes. `ModifyIsAtomic` is the
refinement of `AtomicReplace`, step by step from this invariant;
`CompletionIsRecorded` and `ReplacementIsCovered` are parts of it.

**OrphanReconciliationProofs.** `OwnOrdersAreKnown` rests on `OwnInv`: every own
order the broker has is a row, so a run that has read the known ids has none left
on its lists. `MarkIsComplete` and `OpenGateMeansReconciled` rest on `RunInv`: a
foreign order that was there when the run began is still to be listed, on one
of the lists, recorded, or left out by a listing; and on `UnmarkedInv` for the time
before the first mark.

**AlertDeliveryProofs.** `ClaimedByOne`: `HolderInv` says that the row of a
delivery that is held is not pending and that it has one holder; `FreshInv` that
no job exists before its row is stored. `CallsAreBounded`: `CountInv` says that
no job knows more attempts than the row, that a worker that sends knows them
all, and that only the call in progress is not among them; `BoundsInv` that no
job goes beyond the last attempt. `SlotsAreBalanced` is `SlotsBalance`: `Slots`
counts three sets, the submitters between reservation and enqueue, the queued
jobs and the busy workers, and every step is shown to be one of eight kinds
(`SlotStep`): it keeps the slots (and the counter, or sets it to their number),
takes one, returns one, or passes one from set to set. `OneJob` is the strengthening it needs: while nothing has drifted, a
delivery has at most one job, queued or run, and none before its enqueue has
returned, so an enqueue adds an element to the queue and a worker that takes a
job removes one.

**ModelReloadProofs.** `SwitchesAreValidated`: `ThreadInv` says that the thread
of the pending validation compares with the model that is current, and `CallInv`
that a call finds the pending fields empty from the superseding to its own id.
`MetadataFollowModel`: the two agree whenever no switch holds the lock.

**SliceSchedulerProofs.** The plan first: `EveryPlanCoversItsOrder` holds for
every feasible order. The shares of a plan are a set of pairs that splits into a
rectangle (the base of each slice) and a row (the sampled slices), which the
theorems on products and unions count; `CeilDivBounds` and `NumSlicesBounds` give
the cap and the duration.

Then the behaviour. `StepsAreSliceSteps` reduces the 32 actions to seventeen
effects on rows, jobs and recovery (`SliceStep`, `ReconcileStep`), and `SliceInv`
is inductive for those. Its parts answer one question: who may give a slice a
job? `Unplanned` and `Planned`: the one request that stored the plan, once, while
the broker has nothing. `Recovering`: for a parent at the broker recovery alone,
and only a slice without a job whose row no job has written. `LockedIsOver`: never
a row with `is_terminal`. With `Reconciled` (behind an unforced gate no live slice is
pending, so recovery's list has none) this gives `SlicesAreNotResubmitted` and
`LiveSlicesStayOpen`. `StoppedStays`, that a stopped slice keeps the status
the guard looks for or is locked, gives `CanceledSliceStaysCanceled`: the
statuses that could hide the cancellation from the guard (`failed`, `expired`,
`blocked`) lock the row, and no job is given to a locked row.
`ExpiredParentsAreOver` follows from `LockedIsOver`, and for the broker's side from
`LiveSliceStaysOpen`: all rows of an expired parent are locked.
TLC checked `SliceInv` with two requests before it was proved.

The type invariants of all nine components are proved too (`TypeCorrect`,
`LifecycleTypeCorrect`, `BreakerTypeCorrect`, `KillSwitchTypeCorrect`,
`ModifyTypeCorrect`, `OrphansTypeCorrect`, `AlertsTypeCorrect`,
`ReloadTypeCorrect`, `SlicesTypeCorrect`).

Checked by TLC only: the liveness properties (`PositionHeals`,
`ClosedOrderSettles`, `GatewayReopens`, `SlicesResolve`, `PendingSettles`,
`OpenOrphanQuarantined`, `CatchesUp`, `DeliverySettles`, `ValidationSettles`,
`Converges`), because fairness and ENABLED are out of the prover's reach. Sums
over sets, which would need induction over data, are stated as cardinalities
instead.

## 7. Divergences between code and documentation

One is kept as a run (`submit_lost_reply`) and described under "findings" in
`PROJECT.json`. The others were found in the same way: the named property is in
the last section of its module, and TLC refutes it with the constants given.

| Property | Constants | What happens |
| --- | --- | --- |
| `SubmitOrder!ExecutedWithinLimit` | as `submit_lost_reply`, `Deltas <- BuyAndSell`, `StartPosition = 2`, `LostReplies = FALSE` | an undecided sell makes room for a buy that executes alone (`RM/position_reservation.py:67` checks the net of all reservations) |
| `SubmitOrder!NoOrphanedReservation` | as `submit_lost_reply`, `LostReplies = FALSE` | "TTL prevents orphaned reservations" (`RM/position_reservation.py:177`): only the token expires, its delta stays |
| `SubmitOrder!NothingSentWhileEngaged` | same | "All trading blocked immediately" (`RM/kill_switch.py:212`): the switch is read once, several awaits before the broker call |
| `SubmitOrder!LiveOrderConfirmed` | as `submit_faults` | "Post-broker error, order is live, reservation already confirmed" (`EG/routes/orders.py:2032`): the error that the branch handles may be `confirm()`'s own, and the token of the live order stays |
| `OrderLifecycle!FillCountedOnce` | as `order_heals` | "prevents double-counting from webhook + reconciliation race" (`EG/database.py:2486`): the fill path moves the position and ignores that its CAS was refused, so a repeated webhook is counted again (`EG/routes/webhooks.py:286`); `PositionHeals` shows that it does not last |
| `OrderLifecycle!ClosedOrderNotStuck` | as `order_heals` | "Periodic reconciliation detects and heals drift" (`docs/ADRs/0020-reconciliation-service-architecture.md:77`): a row stamped with the gateway's `NOW()` refuses the broker's older closing update for ever (`EG/routes/orders.py:1892`) |
| `OrderLifecycle!TerminalNeverReverted` | as `order_heals` | "it cannot be reverted to an active state" (`EG/database.py:2202`): `submit_order` overwrites (`EG/routes/orders.py:1892`), and so do the manual controls (`EG/api/manual_controls.py:573`) |
| `OrderLifecycle!FilledNeverClosed` | same | `cancel_order` stamps its CAS with the current time, which beats an earlier fill (`EG/routes/orders.py:2329`) |
| `CircuitBreaker!OnlyResetLeavesTripped` | as `breaker` | the migration's SET overwrites a trip made after its GET (`RM/breaker.py:170`) |
| `CircuitBreaker!StampedTripIsOver` | as `breaker` | the reset stamps whatever entry is newest (`RM/breaker.py:756`) |
| `KillSwitch!HaltSurvivesLoss` | as `kill_switch` | "Do not auto-reinitialize to ACTIVE (could resume trading unsafely)" (`RM/kill_switch.py:158`): after Redis lost an engaged switch, the next process that constructs its switch makes it ACTIVE (line 115) |
| `KillSwitch!HaltSurvivesLoss` | `StartKey = "MISSING"`, no faults | two gateways start on an empty Redis; the second SET overwrites an engagement (`RM/kill_switch.py:133`) |
| `KillSwitch!ReopensWithRedis` | `Gateways = {g1}`, `StartKey = "ACTIVE"`, `MaxCommands = 1`, `MaxFlushes = 0`, `Failures = TRUE`, `FairKillSwitchSpec` | "all trading blocked until Redis available" (`EG/recovery_manager.py:620`): a gateway that started while Redis was down has no client (`EG/lifespan.py:164`), `can_recover` stays false, and it stays blocked until it is restarted |
| `KillSwitch!HistoryInOrder` | as `kill_switch`, no faults | "most recent first" (`RM/kill_switch.py:457`): entries are pushed after the script, in any order |
| `SliceScheduler!RestartedPlanResolves` | as `slices` | "Recover pending TWAP slices" (`EG/lifespan.py:86`): recovery skips a parent that is still `pending_new` (`EG/slice_scheduler.py:422`), which is how the endpoint stores it |
| `SliceScheduler!CanceledParentSendsNothing` | as `slices` | "Used when parent order is canceled" (`EG/database.py:1037`): `cancel_order` on the parent cancels only its row, and the jobs look at their own |
| `ModifyOrder!UnconfirmedHeals` | as `modify` | "Consistent state even if finalization fails (reconciliation can recover)" (`EG/routes/orders.py:2114`): reconciliation selects pending entries only (`EG/database.py:1440`), not the `submitted_unconfirmed` ones |
| `ModifyOrder!OneAtATime` | as `modify` | "only one modification at a time per order" (`EG/routes/orders.py:1022`): the lock ends with the inserting transaction |
| `OrphanReconciliation!OrphanBlocks` | as `orphans` | "a failed WRITE here doesn't create a safety gap" (`EG/reconciliation/orphans.py:151`): orders pass until a later run sets the key |
| `OrphanReconciliation!MissedIsCaughtLater` | `Own = {}`, `Replacements = {}`, `Foreign = {f1}`, `MaxFaults = 1`, `MaxCrashes = 0` | "reconciliation will catch any missed orders later" (`EG/alpaca_client.py:550`): the run that missed the order moves the mark past it (`EG/reconciliation/service.py:467`), and once it is over no listing contains it |
| `OrphanReconciliation!ReplacementIsKnown` | as `orphans` | the gateway's own replacement is taken for an orphan between the broker's answer and the finalization |
| `AlertDelivery!NeverTwoSenders` | as `alerts` | "Only one worker can claim because we change status atomically" (`libs/platform/alerts/delivery_service.py:573`): when the job was added although the hand-over failed, the first worker goes on without a claim (line 331) and the second claims the row that was pending |
| `AlertDelivery!StuckIsReclaimed` | as `alerts` | `STUCK_TASK_THRESHOLD_MINUTES` (`libs/platform/alerts/delivery_service.py:150`): a stuck row may be claimed, but no job comes to claim it |
| `ModelReload!PollingContinues` | as `reload` | "Continues polling even if one check fails" (`apps/signal_service/main.py:270`): a database error without a loaded model ends the task |
| `ModelReload!RecoveryServes` | as `reload` | "self-healing after transient failures" (`apps/signal_service/main.py:300`): after a start without a model nothing creates the SignalGenerator, and requests stay refused with the model loaded |

`OnlyConstructionInitializes` shows one more: `RM/kill_switch.py:165` tells the
operator of a missing state to "manually disengage if appropriate", and
disengage refuses a missing state; only the construction of another switch object,
at a restart or on the health endpoint of a process without one, leaves it.

## 8. What is left out

In the modelled parts: the two halt flags are read in one step; a release is one
step with the answer after it; the verdicts of the quarantine, reconciliation
and fat-finger gates are free in `SubmitOrder`; there the positions table is up
to date; an insert whose reply is lost is not modelled; orders of the manual
controls, which take no reservation, are not part of `SubmitOrder`; `OrderLifecycle` has one
order and one symbol, so the cap on individual lookups is left out and the
window is a free choice (the mark is in `OrphanReconciliation`); the grace
period for `submitted_unconfirmed` rows, prices, realized P&L, fill metadata and
fill backfill are left out. Of the manual controls `OrderLifecycle` has what they
write to the row; `close_position`, `adjust_position` and `flatten_all_positions`
write it once, at the insert, like a submission that ends without its record. Broker and gateway share a clock. Histories are not
trimmed at 1000 entries; entries are ordered by their append. The reset rate
limiter, forced initialization, `_transition_to_open`, `sync_position` and
`clear_all` are left out. In `SliceScheduler` time is a free choice (jobs fire,
misfire and become stale in any order) and a slice the broker has keeps one
status, whatever its fills. `ModifyOrder` has one original order, and a handler is never slower than the age at
which reconciliation takes its pending entry for stale. The exposure
cache beside the quarantine key is only written and is left out. `ModelReload`
has shadow validation enabled; switching it off makes every change a direct
activation. A request to `generate_signals`, which reads model and version from
two fields, is not part of it.

The file lock of the data pipeline (`libs/data/data_providers/locking.py:466`) is
not modelled: the code takes an empty lock file, as it is between creation and first write, for
stale, so its promise fails at once and there is little else to say.

Known and covered by no property: the fallback position read before `reserve`
(`EG/routes/orders.py:1610`), the race of two reduce-only orders (line 539), the
reset rate limit cleared after a reset that took effect
(`libs/web_console_services/cb_service.py:260`).

Not modelled, and not planned: web console UI, authentication (access control
is another subject), backtests, research, feature and factor computation, TCA
and reporting (numerical or read-only), model registry CRUD, data providers
(I/O), pre-trade comparisons without state. These are by far the larger part of
the repository's lines; the models cover the parts whose state several processes
share.

## 9. Plan

1. *Done*: submission with reservations, order life cycle, breaker, kill switch,
   TWAP slices, order modification, reconciliation gate with orphans, alert
   delivery, model hot reload.
2. *Done*: every safety property of the nine components proved, two refinements
   among them. Left: a mirrored `AggregateCoversExposure` for sell orders, whose
   exposure lies below the position.
3. Several orders with the lookup cap; fill backfill; the breaker's reset
   limiter; the recovery manager's other halves; orchestrator retries; the rest of
   the manual controls; the backtest job queue (`libs/trading/backtest/job_queue.py`), where
   a cancellation can race with the start of a job and its flag with a rerun.
4. Composition: the positions table of `OrderLifecycle` as the fallback of the
   reservation; halts of `SubmitOrder` driven by the kill-switch module; the
   replacements of `ModifyOrder` in `OrphanReconciliation`.
