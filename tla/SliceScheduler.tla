---------------------------- MODULE SliceScheduler ----------------------------
(***************************************************************************)
(* A TWAP order from the request to its slices: the endpoint that stores   *)
(* the plan and schedules it (apps/execution_gateway/routes/slicing.py),   *)
(* the scheduler's jobs, their safety checks and the cancellation of what  *)
(* is left (slice_scheduler.py), the parent's cancellation like any other  *)
(* order's (routes/orders.py), and, after a restart, reconciliation and    *)
(* then the recovery of pending slices (lifespan.py).                      *)
(*                                                                         *)
(* The jobs run in the threads of APScheduler, whose job store is the      *)
(* process's memory; a restart loses them and keeps the rows.  A step is   *)
(* what one thread does between two accesses to shared state.  The broker  *)
(* refuses a client_order_id it has seen.                                  *)
(***************************************************************************)
EXTENDS TwapPlan, FiniteSetsExt

CONSTANTS
    Orders,         \* the TWAP orders a client may ask for
    Requests,       \* concurrent requests for the same order
    Starts,         \* the parent rows found at the start ("none": no plan)
    MaxAttempts,    \* attempts of _execute_slice (3 in the code)
    MaxFaults,      \* bound on errors, switches of a halt and operator acts
    MaxCrashes,     \* bound on restarts
    LostReplies,    \* may the broker's answer to an accepted order be lost?
    ForcedGate      \* may the reconciliation gate be forced open?

ASSUME OrdersAssumption == Orders \subseteq Order /\ \A o \in Orders : Feasible(o)
ASSUME StartsAssumption == Starts \subseteq {"none", "accepted"}
ASSUME BoundsAssumption ==
    MaxAttempts \in Nat \ {0} /\ MaxFaults \in Nat /\ MaxCrashes \in Nat
ASSUME ScheduleFaultsAssumption == LostReplies \in BOOLEAN /\ ForcedGate \in BOOLEAN

VARIABLES
    order,          \* the order of this behaviour
    parent,         \* status of the parent's row
    status,         \* status of each slice's row
    locked,         \* slices whose is_terminal column is set
    touched,        \* slices written by a CAS since recovery_now was read
    job,            \* the step each slice's job is at
    tries,          \* attempts each job has begun
    live,           \* slices the broker has accepted
    halt,           \* the engaged halts
    gate,           \* is the startup gate open?
    request,        \* the step each request is at
    cancelling,     \* has cancel_remaining_slices written the rows and not yet
                    \* removed the jobs?
    recovery,       \* recover_zombie_slices
    faults, crashes,
    stopped,        \* history: slices canceled before their job's last check
    dropped,        \* history: did a fault end a job or the recovery half-way?
    unheard,        \* history: slices whose accepted submission looked failed
    bypassed        \* history: was the reconciliation gate forced open?

rowVars == <<parent, status, locked, touched>>
jobVars == <<job, tries, live>>
callVars == <<request, cancelling, recovery>>
budgetVars == <<faults, crashes>>
ghostVars == <<unheard, bypassed>>
historyVars == <<stopped, dropped, ghostVars>>
vars == <<order, rowVars, jobVars, halt, gate, callVars, budgetVars, historyVars>>

Slices == 0 .. NumSlices(order) - 1

TerminalStatuses == {"canceled", "expired", "failed", "rejected",
                     "blocked_kill_switch", "blocked_circuit_breaker"}
SliceStatuses == TerminalStatuses \union
    {"none", "pending_new", "submitted", "submitted_unconfirmed", "accepted"}
ParentStatuses == {"none", "pending_new", "accepted", "canceled", "expired"}

JobSteps == {"none", "waiting", "read", "halts", "guard", "submit", "record"}
RequestSteps == {"new", "store", "schedule", "compensate", "settle", "done"}

Idle == [step |-> "wait", todo |-> {}, expired |-> FALSE]

TypeOK ==
    /\ order \in Orders
    /\ parent \in ParentStatuses
    /\ status \in [Slices -> SliceStatuses]
    /\ locked \subseteq Slices
    /\ touched \subseteq Slices
    /\ job \in [Slices -> JobSteps]
    /\ tries \in [Slices -> 0 .. MaxAttempts]
    /\ live \subseteq Slices
    /\ halt \subseteq {"kill_switch", "breaker"}
    /\ gate \in BOOLEAN
    /\ request \in [Requests -> RequestSteps]
    /\ cancelling \in BOOLEAN
    /\ recovery \in [step : {"wait", "slices", "over"}, todo : SUBSET Slices,
                     expired : BOOLEAN]
    /\ faults \in 0 .. MaxFaults
    /\ crashes \in 0 .. MaxCrashes
    /\ stopped \subseteq Slices
    /\ dropped \in BOOLEAN
    /\ unheard \subseteq Slices
    /\ bypassed \in BOOLEAN

Init ==
    /\ order \in Orders
    /\ parent \in Starts
    /\ status = [s \in Slices |-> IF parent = "none" THEN "none" ELSE "pending_new"]
    /\ locked = {}
    /\ touched = {}
    /\ job = [s \in Slices |-> "none"]
    /\ tries = [s \in Slices |-> 0]
    /\ live = {}
    /\ halt = {}
    /\ gate = FALSE
    /\ request = [r \in Requests |-> "new"]
    /\ cancelling = FALSE
    /\ recovery = Idle
    /\ faults = 0
    /\ crashes = 0
    /\ stopped = {}
    /\ dropped = FALSE
    /\ unheard = {}
    /\ bypassed = FALSE

Fault == faults < MaxFaults /\ faults' = faults + 1
NoFault == UNCHANGED faults

-----------------------------------------------------------------------------
(* The orders table.                                                       *)

\* update_order_status_cas with a stamp of now, which is later than the row's.
Cas(s, new) ==
    IF s \in locked
    THEN UNCHANGED <<status, locked, touched>>
    ELSE /\ status' = [status EXCEPT ![s] = new]
         /\ locked' = IF new \in TerminalStatuses THEN locked \union {s} ELSE locked
         /\ touched' = touched \union {s}

\* The slices a cancellation stops for certain: the broker does not have
\* them, and their job, if any, has yet to read the row for the last time.
Stoppable == {s \in Slices \ live : status[s] = "pending_new" /\ job[s] # "submit"}

\* cancel_pending_slices: one UPDATE, which leaves is_terminal and
\* last_updated_at alone.
CancelPending ==
    /\ status' = [s \in Slices |-> IF status[s] = "pending_new" THEN "canceled" ELSE status[s]]
    /\ stopped' = stopped \union Stoppable
    /\ UNCHANGED <<locked, touched>>

-----------------------------------------------------------------------------
(* POST /api/v1/orders/slice.                                              *)

Answer(r, step) == request' = [request EXCEPT ![r] = step]

\* The checks of submit_sliced_order and _find_existing_twap_plan: a plan
\* that exists is returned as it is.
AcceptRequest(r) ==
    /\ request[r] = "new"
    /\ "kill_switch" \notin halt
    /\ gate
    /\ Answer(r, IF parent = "none" THEN "store" ELSE "done")
    /\ UNCHANGED <<order, rowVars, jobVars, halt, gate, cancelling, recovery, budgetVars, historyVars>>

\* _create_twap_in_db: one transaction; the loser of a race gets a
\* UniqueViolation and returns the existing plan.
StorePlan(r) ==
    /\ request[r] = "store"
    /\ IF parent = "none"
       THEN /\ parent' = "pending_new"
            /\ status' = [s \in Slices |-> "pending_new"]
            /\ Answer(r, "schedule")
       ELSE Answer(r, "done") /\ UNCHANGED <<parent, status>>
    /\ UNCHANGED <<order, locked, touched, jobVars, halt, gate, cancelling, recovery, budgetVars, historyVars>>

\* schedule_slices adds the jobs one after the other; a data error leaves the
\* first ones scheduled and is compensated.
SchedulePlan(r) ==
    /\ request[r] = "schedule"
    /\ \E n \in 0 .. NumSlices(order) :
        /\ job' = [s \in Slices |-> IF s < n THEN "waiting" ELSE job[s]]
        /\ IF n = NumSlices(order)
           THEN Answer(r, "done") /\ NoFault
           ELSE Answer(r, "compensate") /\ Fault
    /\ UNCHANGED <<order, rowVars, tries, live, halt, gate, cancelling, recovery, crashes, historyVars>>

\* _schedule_slices_with_compensation: the pending rows are canceled ...
CompensateRows(r) ==
    /\ request[r] = "compensate"
    /\ \/ CancelPending /\ NoFault /\ Answer(r, "settle") /\ UNCHANGED dropped
       \/ Fault /\ Answer(r, "done") /\ dropped' = TRUE /\ UNCHANGED <<status, locked, touched, stopped>>
    /\ UNCHANGED <<order, parent, jobVars, halt, gate, cancelling, recovery, crashes, ghostVars>>

\* ... and the parent too, unless a slice has progressed.
CompensateParent(r) ==
    /\ request[r] = "settle"
    /\ parent' = IF \A s \in Slices : status[s] \in {"pending_new", "canceled"}
                 THEN "canceled" ELSE parent
    /\ Answer(r, "done")
    /\ UNCHANGED <<order, status, locked, touched, jobVars, halt, gate, cancelling, recovery,
                   budgetVars, historyVars>>

-----------------------------------------------------------------------------
(* DELETE .../slices, the parent's own cancellation, and the operators.    *)

\* cancel_remaining_slices: the rows first, so that a job that fires now
\* finds its slice canceled ...
CancelRows ==
    /\ ~cancelling
    /\ parent # "none"
    /\ Fault
    /\ CancelPending
    /\ cancelling' = TRUE
    /\ UNCHANGED <<order, parent, jobVars, halt, gate, request, recovery, crashes, dropped, ghostVars>>

\* ... then the jobs that have not fired.
RemoveJobs ==
    /\ cancelling
    /\ job' = [s \in Slices |-> IF job[s] = "waiting" THEN "none" ELSE job[s]]
    /\ cancelling' = FALSE
    /\ UNCHANGED <<order, rowVars, tries, live, halt, gate, request, recovery, budgetVars, historyVars>>

\* cancel_order on the parent: its own row only.
CancelParent ==
    /\ parent \in {"pending_new", "accepted"}
    /\ Fault
    /\ parent' = "canceled"
    /\ UNCHANGED <<order, status, locked, touched, jobVars, halt, gate, callVars, crashes, historyVars>>

\* The kill switch or the breaker changes.
SwitchHalt(h) ==
    /\ Fault
    /\ halt' = IF h \in halt THEN halt \ {h} ELSE halt \union {h}
    /\ UNCHANGED <<order, rowVars, jobVars, gate, callVars, crashes, historyVars>>
-----------------------------------------------------------------------------
(* The jobs: _execute_slice_job_wrapper and _execute_slice.                *)

Goto(s, step) == job' = [job EXCEPT ![s] = step]

\* The date trigger fires and the job leaves the store.
Fire(s) ==
    /\ job[s] = "waiting"
    /\ Goto(s, "read")
    /\ tries' = [tries EXCEPT ![s] = 1]
    /\ UNCHANGED <<order, rowVars, live, halt, gate, callVars, budgetVars, historyVars>>

\* The scheduler was too busy for misfire_grace_time: the job is dropped.
Misfire(s) ==
    /\ job[s] = "waiting"
    /\ Fault
    /\ Goto(s, "none")
    /\ dropped' = TRUE
    /\ UNCHANGED <<order, rowVars, tries, live, halt, gate, callVars, crashes, stopped, ghostVars>>

ReadRow(s) ==
    /\ job[s] = "read"
    /\ Goto(s, IF status[s] = "canceled" THEN "none" ELSE "halts")
    /\ UNCHANGED <<order, rowVars, tries, live, halt, gate, callVars, budgetVars, historyVars>>

CheckHalts(s) ==
    /\ job[s] = "halts"
    /\ IF halt = {}
       THEN Goto(s, "guard") /\ UNCHANGED <<status, locked, touched>>
       ELSE /\ Cas(s, IF "kill_switch" \in halt
                      THEN "blocked_kill_switch" ELSE "blocked_circuit_breaker")
            /\ Goto(s, "none")
    /\ UNCHANGED <<order, parent, tries, live, halt, gate, callVars, budgetVars, historyVars>>

\* Mutant: the row is not read again before the submission.
GuardBlind(s) ==
    /\ job[s] = "guard"
    /\ Goto(s, "submit")
    /\ UNCHANGED <<order, rowVars, tries, live, halt, gate, callVars, budgetVars, historyVars>>

\* The pre-submit guard.
Guard(s) ==
    /\ job[s] = "guard"
    /\ Goto(s, IF status[s] = "canceled" THEN "none" ELSE "submit")
    /\ UNCHANGED <<order, rowVars, tries, live, halt, gate, callVars, budgetVars, historyVars>>

\* Postgres or Redis fails during the checks: the slice is marked failed if
\* that is still possible.  A halt whose state is missing raises RuntimeError,
\* which nothing catches: the job is gone and the row stays.
CheckFails(s) ==
    /\ job[s] \in {"read", "halts", "guard"}
    /\ Fault
    /\ Goto(s, "none")
    /\ \/ Cas(s, "failed") /\ UNCHANGED dropped
       \/ dropped' = TRUE /\ UNCHANGED <<status, locked, touched>>
    /\ UNCHANGED <<order, parent, tries, live, halt, gate, callVars, crashes, stopped, ghostVars>>

\* executor.submit_order returns.
Place(s) ==
    /\ job[s] = "submit"
    /\ s \notin live
    /\ live' = live \union {s}
    /\ Goto(s, "record")
    /\ UNCHANGED <<order, rowVars, tries, halt, gate, callVars, budgetVars, historyVars>>

\* The broker refuses the order, for instance as a duplicate.
Rejected(s) ==
    /\ job[s] = "submit"
    /\ Cas(s, "rejected")
    /\ Goto(s, "none")
    /\ UNCHANGED <<order, parent, tries, live, halt, gate, callVars, budgetVars, historyVars>>

\* Mutant: the attempts are not counted.
RetryForever(s) ==
    /\ Goto(s, "read")
    /\ tries' = [tries EXCEPT ![s] = @ + 1]
    /\ UNCHANGED <<status, locked, touched>>

\* AlpacaConnectionError: again from the first check, or, with the attempts
\* used up, the wrapper marks the slice failed.
RetryOrFail(s) ==
    IF tries[s] < MaxAttempts
    THEN /\ Goto(s, "read")
         /\ tries' = [tries EXCEPT ![s] = @ + 1]
         /\ UNCHANGED <<status, locked, touched>>
    ELSE Cas(s, "failed") /\ Goto(s, "none") /\ UNCHANGED tries

NotReached(s) ==
    /\ job[s] = "submit"
    /\ Fault
    /\ RetryOrFail(s)
    /\ UNCHANGED <<order, parent, live, halt, gate, callVars, crashes, historyVars>>

\* The broker accepts the order and its answer is lost, or is lost and then
\* asked for again by the client's own retry, or cannot be parsed: a
\* connection error in the first case, a rejection in the others.
ReplyLost(s) ==
    /\ LostReplies
    /\ job[s] = "submit"
    /\ Fault
    /\ live' = live \union {s}
    /\ unheard' = unheard \union {s}
    /\ \/ RetryOrFail(s)
       \/ Cas(s, "rejected") /\ Goto(s, "none") /\ UNCHANGED tries
    /\ UNCHANGED <<order, parent, halt, gate, callVars, crashes, stopped, dropped, bypassed>>

\* Mutant: a slice whose row could not be written is tried again.
RecordRetried(s) ==
    /\ job[s] = "record"
    /\ \/ Cas(s, "submitted") /\ NoFault /\ Goto(s, "none")
       \/ UNCHANGED <<status, locked, touched>> /\ Fault /\ Goto(s, "read")
    /\ UNCHANGED <<order, parent, tries, live, halt, gate, callVars, crashes, historyVars>>

\* The row is written after the submission: three tries, then once more as
\* submitted_unconfirmed, then the job ends with an error.
Record(s) ==
    /\ job[s] = "record"
    /\ Goto(s, "none")
    /\ \/ Cas(s, "submitted") /\ NoFault
       \/ Cas(s, "submitted_unconfirmed") /\ Fault
       \/ UNCHANGED <<status, locked, touched>> /\ Fault
    /\ UNCHANGED <<order, parent, tries, live, halt, gate, callVars, crashes, historyVars>>

-----------------------------------------------------------------------------
(* Restart, reconciliation and the recovery of pending slices.             *)

\* The process stops and starts again: the jobs and the open requests are
\* gone, the gate is closed.
Restart ==
    /\ crashes < MaxCrashes
    /\ crashes' = crashes + 1
    /\ job' = [s \in Slices |-> "none"]
    /\ tries' = [s \in Slices |-> 0]
    /\ request' = [r \in Requests |-> IF request[r] = "new" THEN "new" ELSE "done"]
    /\ cancelling' = FALSE
    /\ recovery' = Idle
    /\ gate' = FALSE
    /\ UNCHANGED <<order, rowVars, live, halt, faults, historyVars>>

\* A reconciliation run that succeeds, at startup or periodically: rows of
\* orders the broker knows take its status if nothing was written to them
\* with a later stamp; the gate opens.
Reconcile ==
    /\ status' = [s \in Slices |->
                    IF s \in live \ locked /\ status[s] \in {"pending_new", "canceled"}
                    THEN "accepted" ELSE status[s]]
    /\ gate' = TRUE
    /\ UNCHANGED <<order, parent, locked, touched, jobVars, halt, callVars, budgetVars, historyVars>>

\* An operator opens the gate after a run that failed.
ForceGate ==
    /\ ForcedGate
    /\ ~gate
    /\ Fault
    /\ gate' = TRUE
    /\ bypassed' = TRUE
    /\ UNCHANGED <<order, rowVars, jobVars, halt, callVars, crashes, stopped, dropped, unheard>>

\* Mutant: recovery does not wait for the gate.
BeginRecoveryEarly ==
    /\ recovery.step = "wait"
    /\ recovery' = [Idle EXCEPT !.step = "slices",
                                !.todo = {s \in Slices : status[s] = "pending_new"}]
    /\ touched' = {}
    /\ UNCHANGED <<order, parent, status, locked, jobVars, halt, gate, request, cancelling,
                   budgetVars, historyVars>>

\* _recover_zombie_slices_after_reconciliation: recovery_now and
\* get_pending_child_slices once the gate is open.
BeginRecovery ==
    /\ recovery.step = "wait"
    /\ gate
    /\ recovery' = [Idle EXCEPT !.step = "slices",
                                !.todo = {s \in Slices : status[s] = "pending_new"}]
    /\ touched' = {}
    /\ UNCHANGED <<order, parent, status, locked, jobVars, halt, gate, request, cancelling,
                   budgetVars, historyVars>>

\* The gate stayed closed for too long, or a call of the loop raised: the
\* task ends, and nothing starts it again before the next restart.
EndRecovery ==
    /\ recovery.step = "slices" \/ (recovery.step = "wait" /\ ~gate)
    /\ Fault
    /\ recovery' = [Idle EXCEPT !.step = "over"]
    /\ dropped' = TRUE
    /\ UNCHANGED <<order, rowVars, jobVars, halt, gate, request, cancelling, crashes, stopped, ghostVars>>

\* update_order_status_cas with the stamp recovery_now.
RecoveryCas(s, new) ==
    IF s \in touched THEN UNCHANGED <<status, locked, touched>> ELSE Cas(s, new)

\* The parent is canceled or expired: so are all its slices.
Cascade ==
    /\ recovery.step = "slices"
    /\ recovery.todo # {}
    /\ parent \in {"canceled", "expired"}
    /\ CancelPending
    /\ recovery' = [Idle EXCEPT !.step = "over"]
    /\ UNCHANGED <<order, parent, jobVars, halt, gate, request, cancelling, budgetVars, dropped, ghostVars>>

Handled(s) == recovery' = [recovery EXCEPT !.todo = @ \ {s}]

\* A parent that is neither over nor at the broker: the slice is skipped.
Skip(s) ==
    /\ recovery.step = "slices" /\ s \in recovery.todo
    /\ parent = "pending_new"
    /\ Handled(s)
    /\ UNCHANGED <<order, rowVars, jobVars, halt, gate, request, cancelling, budgetVars, historyVars>>

\* A slice that is too old.
Expire(s) ==
    /\ recovery.step = "slices" /\ s \in recovery.todo
    /\ parent = "accepted"
    /\ RecoveryCas(s, "expired")
    /\ recovery' = [recovery EXCEPT !.todo = @ \ {s}, !.expired = TRUE]
    /\ UNCHANGED <<order, parent, jobVars, halt, gate, request, cancelling, budgetVars, historyVars>>

\* The breaker is tripped.
Block(s) ==
    /\ recovery.step = "slices" /\ s \in recovery.todo
    /\ parent = "accepted"
    /\ "breaker" \in halt
    /\ RecoveryCas(s, "blocked_circuit_breaker")
    /\ Handled(s)
    /\ UNCHANGED <<order, parent, jobVars, halt, gate, request, cancelling, budgetVars, historyVars>>

\* The slice is past its time, the market closed and its opening unknown.
GiveUp(s) ==
    /\ recovery.step = "slices" /\ s \in recovery.todo
    /\ parent = "accepted"
    /\ "breaker" \notin halt
    /\ Fault
    /\ RecoveryCas(s, "failed")
    /\ Handled(s)
    /\ UNCHANGED <<order, parent, jobVars, halt, gate, request, cancelling, crashes, historyVars>>

\* Mutant: only the scheduled time is updated.
RescheduleRow(s) ==
    /\ recovery.step = "slices" /\ s \in recovery.todo
    /\ parent = "accepted"
    /\ "breaker" \notin halt
    /\ Handled(s)
    /\ UNCHANGED <<order, rowVars, jobVars, halt, gate, request, cancelling, budgetVars, historyVars>>

\* Otherwise it is scheduled: for its own time, now, or the next opening.
Reschedule(s) ==
    /\ recovery.step = "slices" /\ s \in recovery.todo
    /\ parent = "accepted"
    /\ "breaker" \notin halt
    /\ job' = IF job[s] = "none" THEN [job EXCEPT ![s] = "waiting"] ELSE job
    /\ Handled(s)
    /\ UNCHANGED <<order, rowVars, tries, live, halt, gate, request, cancelling, budgetVars, historyVars>>

\* Mutant: a parent with an expired slice is expired at once.
FinishRecoveryAtOnce ==
    /\ recovery.step = "slices"
    /\ recovery.todo = {}
    /\ parent' = IF recovery.expired /\ parent = "accepted" THEN "expired" ELSE parent
    /\ recovery' = [Idle EXCEPT !.step = "over"]
    /\ UNCHANGED <<order, status, locked, touched, jobVars, halt, gate, request, cancelling,
                   budgetVars, historyVars>>

\* A parent with an expired slice and no child whose is_terminal is unset is
\* expired too.
FinishRecovery ==
    /\ recovery.step = "slices"
    /\ recovery.todo = {}
    /\ parent' = IF recovery.expired /\ locked = Slices /\ parent = "accepted"
                 THEN "expired" ELSE parent
    /\ recovery' = [Idle EXCEPT !.step = "over"]
    /\ UNCHANGED <<order, status, locked, touched, jobVars, halt, gate, request, cancelling,
                   budgetVars, historyVars>>

-----------------------------------------------------------------------------

JobStep(s) ==
    \/ Fire(s) \/ ReadRow(s) \/ CheckHalts(s) \/ Guard(s) \/ Place(s) \/ Rejected(s) \/ Record(s)

RecoverSlice(s) == Skip(s) \/ Expire(s) \/ Block(s) \/ GiveUp(s) \/ Reschedule(s)

RequestStep(r) == StorePlan(r) \/ SchedulePlan(r) \/ CompensateRows(r) \/ CompensateParent(r)

Next ==
    \/ \E r \in Requests : AcceptRequest(r) \/ RequestStep(r)
    \/ CancelRows \/ RemoveJobs \/ CancelParent
    \/ \E h \in {"kill_switch", "breaker"} : SwitchHalt(h)
    \/ \E s \in Slices : \/ JobStep(s) \/ Misfire(s) \/ CheckFails(s) \/ NotReached(s) \/ ReplyLost(s)
                         \/ RecoverSlice(s)
    \/ Restart \/ Reconcile \/ ForceGate
    \/ BeginRecovery \/ EndRecovery \/ Cascade \/ FinishRecovery

Spec == Init /\ [][Next]_vars

MaxSlices == Max({NumSlices(o) : o \in Orders})

\* A request that was accepted runs to its end, jobs fire at their time and
\* their threads proceed, reconciliation and the recovery task are started
\* with the process.
Fairness ==
    /\ \A r \in Requests : WF_vars(RequestStep(r))
    /\ WF_vars(RemoveJobs)
    /\ \A s \in 0 .. MaxSlices - 1 : /\ WF_vars(s \in Slices /\ JobStep(s))
                                     /\ WF_vars(s \in Slices /\ RecoverSlice(s))
    /\ WF_vars(Reconcile) /\ WF_vars(BeginRecovery) /\ WF_vars(Cascade) /\ WF_vars(FinishRecovery)

FairSpec == Spec /\ Fairness

-----------------------------------------------------------------------------
(* Properties.                                                             *)

\* One pair for each share of each slice of a plan.
PlanShares(q) == UNION {{s} \X (1 .. q[s]) : s \in DOMAIN q}

\* The plan sells exactly what was asked for, in slices of at least one share
\* and no more than the liquidity check allows, within the requested duration,
\* whichever slices the seed gives the remaining shares to.
PlanCovers(o) ==
    /\ \A q \in SliceQtys(o) : /\ Cardinality(PlanShares(q)) = o.qty
                               /\ \A s \in DOMAIN q : q[s] \in 1 .. o.cap
    /\ (NumSlices(o) - 1) * Interval(o) <= o.seconds

PlanCoversOrder == PlanCovers(order)

\* A slice that was canceled before its job's last look at the row never
\* reaches the broker, whatever recovery, retries and restarts do afterwards.
CancelHolds == stopped \intersect live = {}

\* No job sets out to submit a slice the broker already has: recovery runs
\* behind the reconciliation gate.  The exceptions are a gate forced open and
\* a submission that looked failed and was retried.
NeverSubmittedTwice ==
    bypassed \/ \A s \in live \ unheard : job[s] \in {"none", "record"}

\* The row of a slice the broker has is never closed (is_terminal) by the
\* scheduler, its recovery or a halt, so that update_order_status_cas still
\* accepts what the broker and reconciliation report of it.  Until one of them
\* is heard the row of a live slice may well read pending_new or, after a
\* cancellation, canceled: neither sets is_terminal.  The same exceptions.
LiveSliceStaysOpen ==
    bypassed \/ (live \ unheard) \intersect locked = {}

\* A parent is expired only when every slice's row is closed, no job is left to
\* send one, and the broker has none of them but those whose accepted
\* submission looked failed, which are closed as failed or rejected.
ExpiredParentIsOver ==
    parent = "expired" =>
        /\ locked = Slices
        /\ \A s \in Slices : job[s] = "none"
        /\ bypassed \/ live \subseteq unheard

Pending(s) == s \in Slices /\ status[s] = "pending_new"

\* A pending slice is executed, blocked, canceled or expired in the end,
\* unless a fault ended its job half-way; a plan that lost its jobs in a restart is
\* recovered if its parent's status allows it.
SlicesResolve ==
    \A s \in 0 .. MaxSlices - 1 :
        Pending(s) ~> \/ ~Pending(s)
                      \/ dropped
                      \/ parent # "accepted" /\ crashes > 0

-----------------------------------------------------------------------------
(* What the documentation says and the code does not do.                   *)

\* "Recover pending TWAP slices": the slices of a plan made by the endpoint
\* are resolved after a restart.
RestartedPlanResolves ==
    \A s \in 0 .. MaxSlices - 1 :
        Pending(s) ~> (~Pending(s) \/ dropped)

\* cancel_pending_slices is "used when parent order is canceled": no job sets
\* out for the broker once the parent is canceled.
CanceledParentSendsNothing ==
    [][parent = "canceled" =>
        \A s \in Slices : job'[s] = "submit" => job[s] = "submit"]_vars
===============================================================================
