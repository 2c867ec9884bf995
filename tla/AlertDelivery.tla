---------------------------- MODULE AlertDelivery -----------------------------
(***************************************************************************)
(* Delivery of alerts: AlertManager.trigger_alert stores a delivery,       *)
(* reserves a slot of the queue and enqueues a job (libs/platform/alerts/  *)
(* alert_manager.py); RQ workers claim it, send it with retries, hand it   *)
(* back to the queue for later, or move it to the poison queue             *)
(* (delivery_service.py, poison_queue.py, apps/alert_worker/entrypoint.py).*)
(*                                                                         *)
(* The table, the Redis counter and the RQ queue are written by separate   *)
(* calls; a step is one of them.  RQ itself is modelled by its use: a job  *)
(* is taken by one worker, and a job whose worker died is not run again    *)
(* unless an operator requeues it.                                         *)
(***************************************************************************)
EXTENDS Integers, FiniteSets, FiniteSetsExt

CONSTANTS
    Deliveries,     \* rows of alert_deliveries, one per dedup_key
    Workers,
    NoDelivery,     \* an idle worker's delivery
    MaxAttempts,    \* MAX_ATTEMPTS (3 in the code)
    MaxDepth,       \* MAX_QUEUE_DEPTH
    ResumeDepth,    \* QUEUE_RESUME_THRESHOLD
    MaxFaults       \* bound on failed calls, deaths and restarts of workers

ASSUME DeliveriesAssumption == NoDelivery \notin Deliveries /\ IsFiniteSet(Deliveries)
ASSUME WorkersAssumption == IsFiniteSet(Workers)
ASSUME DepthAssumption ==
    /\ MaxAttempts \in Nat \ {0} /\ MaxFaults \in Nat
    /\ MaxDepth \in Nat /\ ResumeDepth \in 1 .. MaxDepth

VARIABLES
    status, attempts,   \* the delivery's row
    submit,             \* the step trigger_alert is at, per delivery
    queued,             \* the attempt numbers of a delivery's jobs in RQ
    worker,             \* the job each worker executes
    failed,             \* deliveries with a job in RQ's registry of failed ones
    depth,              \* the Redis counter
    accepting,          \* QueueDepthManager._accepting
    syncing,            \* the count of a sync_depth_from_db that has yet to set it
    faults,
    sends,              \* history: calls of the channel whose record is not lost
    lost,               \* history: deliveries whose job is gone
    doubled,            \* history: deliveries enqueued by a call that failed
    resumed,            \* history: deliveries whose failed hand-over went on
    drifted             \* history: has a fault parted the counter from the slots?

rowVars == <<status, attempts>>
historyVars == <<sends, lost, doubled, resumed, drifted>>
vars == <<rowVars, submit, queued, worker, failed, depth, accepting, syncing, faults, historyVars>>

Statuses == {"none", "pending", "in_progress", "delivered", "failed", "poison"}
SubmitSteps == {"none", "stored", "counted", "undo", "mark", "done"}
Results == {"delivered", "retry", "later", "refused"}
Steps == {"idle", "claim", "check", "send", "requeue_limited", "requeue_failed",
          "resume", "poison", "release", "abort"} \union Results
Idle == [step |-> "idle", id |-> NoDelivery, n |-> 0]

TypeOK ==
    /\ status \in [Deliveries -> Statuses]
    /\ attempts \in [Deliveries -> Nat]
    /\ submit \in [Deliveries -> SubmitSteps]
    /\ queued \in [Deliveries -> SUBSET Nat]
    /\ worker \in [Workers -> [step : Steps, id : Deliveries \union {NoDelivery}, n : Nat]]
    /\ failed \subseteq Deliveries
    /\ depth \in Nat
    /\ accepting \in BOOLEAN
    /\ syncing \subseteq Nat
    /\ faults \in 0 .. MaxFaults
    /\ sends \in [Deliveries -> Int]
    /\ lost \subseteq Deliveries
    /\ doubled \subseteq Deliveries
    /\ resumed \subseteq Deliveries
    /\ drifted \in BOOLEAN

Init ==
    /\ status = [d \in Deliveries |-> "none"]
    /\ attempts = [d \in Deliveries |-> 0]
    /\ submit = [d \in Deliveries |-> "none"]
    /\ queued = [d \in Deliveries |-> {}]
    /\ worker = [w \in Workers |-> Idle]
    /\ failed = {}
    /\ depth = 0
    /\ accepting = TRUE
    /\ syncing = {}
    /\ faults = 0
    /\ sends = [d \in Deliveries |-> 0]
    /\ lost = {} /\ doubled = {} /\ resumed = {} /\ drifted = FALSE

Fault == faults < MaxFaults /\ faults' = faults + 1

\* increment, and decrement with its clamp at zero.
Increment == depth' = depth + 1
Decrement == depth' = IF depth > 0 THEN depth - 1 ELSE 0

-----------------------------------------------------------------------------
(* trigger_alert.                                                          *)

\* is_accepting with its hysteresis, then the row in one transaction; a
\* dedup_key that has one already gets no second delivery.
Trigger(d) ==
    /\ submit[d] = "none"
    /\ accepting' = IF accepting THEN depth < MaxDepth ELSE depth < ResumeDepth
    /\ IF accepting'
       THEN /\ status' = [status EXCEPT ![d] = "pending"]
            /\ submit' = [submit EXCEPT ![d] = "stored"]
       ELSE UNCHANGED <<status, submit>>
    /\ UNCHANGED <<failed, attempts, queued, worker, depth, syncing, faults, historyVars>>

CountSlot(d) ==
    /\ submit[d] = "stored"
    /\ Increment
    /\ submit' = [submit EXCEPT ![d] = "counted"]
    /\ UNCHANGED <<failed, rowVars, queued, worker, accepting, syncing, faults, historyVars>>

\* enqueue_one: it succeeds, fails, or fails after the job was added.
Enqueue(d) ==
    /\ submit[d] = "counted"
    /\ \/ /\ queued' = [queued EXCEPT ![d] = @ \union {0}]
          /\ submit' = [submit EXCEPT ![d] = "done"]
          /\ UNCHANGED <<faults, doubled, drifted>>
       \/ /\ Fault
          /\ submit' = [submit EXCEPT ![d] = "undo"]
          /\ UNCHANGED <<queued, doubled, drifted>>
       \/ /\ Fault
          /\ queued' = [queued EXCEPT ![d] = @ \union {0}]
          /\ submit' = [submit EXCEPT ![d] = "undo"]
          /\ doubled' = doubled \union {d}
          /\ drifted' = TRUE
    /\ UNCHANGED <<failed, rowVars, worker, depth, accepting, syncing, sends, lost, resumed>>

\* After a failed enqueue the slot is given back ...
UndoSlot(d) ==
    /\ submit[d] = "undo"
    /\ Decrement
    /\ submit' = [submit EXCEPT ![d] = "mark"]
    /\ UNCHANGED <<failed, rowVars, queued, worker, accepting, syncing, faults, historyVars>>

\* ... and _mark_delivery_failed overwrites the row.
MarkFailed(d) ==
    /\ submit[d] = "mark"
    /\ status' = [status EXCEPT ![d] = "failed"]
    /\ submit' = [submit EXCEPT ![d] = "done"]
    /\ UNCHANGED <<failed, attempts, queued, worker, depth, accepting, syncing, faults, historyVars>>

\* The slots that are taken: by submitters, by jobs and by workers.
Reserving == {d \in Deliveries : submit[d] \in {"counted", "undo"}}
Jobs == UNION {{d} \X queued[d] : d \in Deliveries}
Busy == {w \in Workers : worker[w].step # "idle"}

Slots == Cardinality(Reserving) + Cardinality(Jobs) + Cardinality(Busy)

\* _enqueue_deliveries ends half-way for a batch, because its process stops or a
\* call raises: an increment, before any job of the batch is added; the decrement
\* after a failed enqueue; or the UPDATE of _mark_delivery_failed.  The rows stay
\* pending and the slots taken; the Redis call that raised may have acted.
SubmitFails(batch) ==
    /\ batch # {} /\ \A d \in batch : submit[d] \notin {"none", "done"}
    /\ Fault
    /\ submit' = [d \in Deliveries |-> IF d \in batch THEN "done" ELSE submit[d]]
    /\ lost' = lost \union {d \in batch : queued[d] = {}}
    /\ \/ UNCHANGED depth
       \/ (\E d \in batch : submit[d] = "stored") /\ Increment
       \/ (\E d \in batch : submit[d] = "undo") /\ Decrement
    /\ drifted' = (drifted \/ batch \intersect Reserving # {} \/ depth' # depth)
    /\ UNCHANGED <<failed, rowVars, queued, worker, accepting, syncing, sends, doubled, resumed>>

-----------------------------------------------------------------------------
(* DeliveryExecutor.execute.                                               *)

At(w, step) == worker[w].step = step
Goto(w, step) == worker' = [worker EXCEPT ![w].step = step]
GotoNext(w, step) == worker' = [worker EXCEPT ![w].step = step, ![w].n = @ + 1]
Stop(w) == worker' = [worker EXCEPT ![w] = Idle]
Id(w) == worker[w].id

\* The job ends with an error: RQ keeps it and does not run it again.
JobFails(w) ==
    /\ failed' = failed \union {Id(w)}
    /\ lost' = lost \union {Id(w)}

\* RQ hands a job to a worker.
StartJob(w, d, a) ==
    /\ At(w, "idle")
    /\ queued' = [queued EXCEPT ![d] = @ \ {a}]
    /\ worker' = [worker EXCEPT ![w] = [step |-> "claim", id |-> d, n |-> a]]
    /\ UNCHANGED <<failed, rowVars, submit, depth, accepting, syncing, faults, historyVars>>

\* A row is stuck when it is in progress for STUCK_TASK_THRESHOLD_MINUTES,
\* which no running job takes.
Stuck(d) ==
    /\ status[d] = "in_progress"
    /\ \A w \in Workers : Id(w) = d => At(w, "claim")

\* Mutant: a row in progress is claimed whatever its age.
ClaimAny(w) ==
    /\ At(w, "claim")
    /\ IF status[Id(w)] \in {"pending", "in_progress"}
       THEN /\ status' = [status EXCEPT ![Id(w)] = "in_progress"]
            /\ LET n == Max({worker[w].n, attempts[Id(w)]})
               IN worker' = [worker EXCEPT ![w].n = n,
                                           ![w].step = IF n < MaxAttempts THEN "check" ELSE "poison"]
            /\ UNCHANGED <<depth, failed, lost, faults>>
       ELSE Decrement /\ Stop(w) /\ UNCHANGED <<status, failed, lost, faults>>
    /\ UNCHANGED <<attempts, submit, queued, accepting, syncing, sends, doubled, resumed, drifted>>

\* _claim_delivery: one UPDATE takes a pending or stuck row; otherwise, and
\* when the database fails, the slot is given back and the job ends.
Claim(w) ==
    /\ At(w, "claim")
    /\ \/ /\ status[Id(w)] = "pending" \/ Stuck(Id(w))
          /\ status' = [status EXCEPT ![Id(w)] = "in_progress"]
          /\ LET n == Max({worker[w].n, attempts[Id(w)]})
             IN worker' = [worker EXCEPT ![w].n = n,
                                         ![w].step = IF n < MaxAttempts THEN "check" ELSE "poison"]
          /\ UNCHANGED <<depth, failed, lost, faults>>
       \/ /\ status[Id(w)] # "pending" /\ ~Stuck(Id(w))
          /\ Decrement /\ Stop(w)
          /\ UNCHANGED <<status, failed, lost, faults>>
       \/ /\ Fault
          /\ Decrement /\ Stop(w)
          /\ JobFails(w)
          /\ UNCHANGED status
    /\ UNCHANGED <<attempts, submit, queued, accepting, syncing, sends, doubled, resumed, drifted>>

\* _record_attempt and _record_attempt_failure.
RecordAttempt(w, new) ==
    /\ status' = [status EXCEPT ![Id(w)] = new]
    /\ attempts' = [attempts EXCEPT ![Id(w)] = worker[w].n + 1]

\* Mutant: an attempt too many.
LastAttemptLate(w) == worker[w].n >= MaxAttempts

LastAttempt(w) == worker[w].n + 1 >= MaxAttempts

\* _check_rate_limits: a limited delivery goes back to the queue with one
\* attempt used, or fails when that was the last.
CheckLimits(w) ==
    /\ At(w, "check")
    /\ \/ Goto(w, "send") /\ UNCHANGED rowVars
       \/ LastAttempt(w) /\ RecordAttempt(w, "failed") /\ Goto(w, "poison")
       \/ ~LastAttempt(w) /\ RecordAttempt(w, "pending") /\ GotoNext(w, "requeue_limited")
    /\ UNCHANGED <<failed, submit, queued, depth, accepting, syncing, faults, historyVars>>

\* channel_handler.send: delivered, a transient error, one with a long
\* Retry-After, or a permanent one.
Send(w, result) ==
    /\ At(w, "send")
    /\ sends' = [sends EXCEPT ![Id(w)] = @ + 1]
    /\ Goto(w, result)
    /\ UNCHANGED <<failed, rowVars, submit, queued, depth, accepting, syncing, faults, lost, doubled, resumed, drifted>>

\* The result is recorded.
Record(w) ==
    /\ \/ At(w, "delivered") /\ RecordAttempt(w, "delivered") /\ Goto(w, "release")
       \/ /\ At(w, "refused") \/ (worker[w].step \in {"retry", "later"} /\ LastAttempt(w))
          /\ RecordAttempt(w, "failed")
          /\ Goto(w, "poison")
       \/ /\ At(w, "retry") /\ ~LastAttempt(w)
          /\ RecordAttempt(w, "in_progress")
          /\ GotoNext(w, "check")
       \/ /\ At(w, "later") /\ ~LastAttempt(w)
          /\ RecordAttempt(w, "pending")
          /\ GotoNext(w, "requeue_failed")
    /\ UNCHANGED <<failed, submit, queued, depth, accepting, syncing, faults, historyVars>>

Scheduled(w) == queued' = [queued EXCEPT ![Id(w)] = @ \union {worker[w].n}]

\* Mutant: the slot is given back with the hand-over.
HandOverRelease(w) ==
    /\ worker[w].step \in {"requeue_limited", "requeue_failed"}
    /\ Scheduled(w)
    /\ Decrement
    /\ Stop(w)
    /\ UNCHANGED <<failed, rowVars, submit, accepting, syncing, faults, historyVars>>

\* Mutant: the row is pending again, and no job is added.
HandOverForgotten(w) ==
    /\ worker[w].step \in {"requeue_limited", "requeue_failed"}
    /\ Decrement
    /\ Stop(w)
    /\ UNCHANGED <<failed, rowVars, submit, queued, accepting, syncing, faults, historyVars>>

\* schedule_retry adds the job for later; the slot goes with it.
HandOver(w) ==
    /\ worker[w].step \in {"requeue_limited", "requeue_failed"}
    /\ Scheduled(w)
    /\ Stop(w)
    /\ UNCHANGED <<failed, rowVars, submit, depth, accepting, syncing, faults, historyVars>>

\* schedule_retry fails, perhaps after the job was added: a limited delivery
\* goes on in this worker; after a failed send the error ends the job.
HandOverFails(w) ==
    /\ worker[w].step \in {"requeue_limited", "requeue_failed"}
    /\ Fault
    /\ \/ UNCHANGED <<queued, doubled, drifted>>
       \/ Scheduled(w) /\ doubled' = doubled \union {Id(w)} /\ drifted' = TRUE
    /\ Goto(w, IF At(w, "requeue_limited") THEN "resume" ELSE "abort")
    /\ UNCHANGED <<failed, rowVars, submit, depth, accepting, syncing, sends, lost, resumed>>

\* The row that was pending is in progress again, whoever claimed it meanwhile.
Resume(w) ==
    /\ At(w, "resume")
    /\ status' = [status EXCEPT ![Id(w)] = "in_progress"]
    /\ attempts' = [attempts EXCEPT ![Id(w)] = worker[w].n]
    /\ resumed' = resumed \union {Id(w)}
    /\ Goto(w, "check")
    /\ UNCHANGED <<failed, submit, queued, depth, accepting, syncing, faults, sends, lost, doubled, drifted>>

\* PoisonQueue.add.
Poison(w) ==
    /\ At(w, "poison")
    /\ status' = [status EXCEPT ![Id(w)] = "poison"]
    /\ attempts' = [attempts EXCEPT ![Id(w)] = Max({@, worker[w].n})]
    /\ Goto(w, "release")
    /\ UNCHANGED <<failed, submit, queued, depth, accepting, syncing, faults, historyVars>>

\* The finally clause; after an error it raises and the job has failed.
Release(w) ==
    /\ \/ At(w, "release") /\ UNCHANGED <<failed, lost>>
       \/ At(w, "abort") /\ JobFails(w)
    /\ Decrement
    /\ Stop(w)
    /\ UNCHANGED <<rowVars, submit, queued, accepting, syncing, faults, sends, doubled, resumed, drifted>>

\* A decrement raises, whether it was done or not: RQ has the job as failed.  The
\* delivery lost its job unless it was over or another worker's.
ReleaseFails(w) ==
    /\ worker[w].step \in {"claim", "release", "abort"}
    /\ Fault
    /\ failed' = failed \union {Id(w)}
    /\ lost' = IF At(w, "release") \/ (At(w, "claim") /\ status[Id(w)] # "pending" /\ ~Stuck(Id(w)))
               THEN lost ELSE lost \union {Id(w)}
    /\ Stop(w)
    /\ \/ Decrement /\ UNCHANGED drifted
       \/ UNCHANGED depth /\ drifted' = TRUE
    /\ UNCHANGED <<rowVars, submit, queued, accepting, syncing, sends, doubled, resumed>>

\* The record of a call of the channel is lost.
Forget(w) ==
    sends' = IF worker[w].step \in Results THEN [sends EXCEPT ![Id(w)] = @ - 1] ELSE sends

\* The database fails when an attempt is recorded: the error ends the job.
DatabaseFails(w) ==
    /\ worker[w].step \in {"check", "resume", "poison"} \union Results
    /\ Fault
    /\ Goto(w, "abort")
    /\ Forget(w)
    /\ UNCHANGED <<failed, rowVars, submit, queued, depth, accepting, syncing, lost, doubled, resumed, drifted>>

\* A worker dies with its job.
WorkerDies(w) ==
    /\ ~At(w, "idle")
    /\ Fault
    /\ JobFails(w)
    /\ Stop(w)
    /\ Forget(w)
    /\ drifted' = TRUE
    /\ UNCHANGED <<rowVars, submit, queued, depth, accepting, syncing, doubled, resumed>>

\* An operator requeues a job that failed or whose worker died.
Requeue(d) ==
    /\ d \in failed
    /\ failed' = failed \ {d}
    /\ queued' = [queued EXCEPT ![d] = @ \union {0}]
    /\ drifted' = TRUE
    /\ UNCHANGED <<rowVars, submit, worker, depth, accepting, syncing, faults, sends, lost, doubled, resumed>>

\* A worker process starts: sync_depth_from_db counts the rows ...
CountRows ==
    /\ syncing = {}
    /\ Fault
    /\ syncing' = {Cardinality({d \in Deliveries : status[d] \in {"pending", "in_progress"}})}
    /\ UNCHANGED <<failed, rowVars, submit, queued, worker, depth, accepting, historyVars>>

\* ... and sets the counter, which parts it from the slots when a row has none or
\* several, or when a slot was taken or given back in between.
SetDepth ==
    /\ depth' \in syncing
    /\ syncing' = {}
    /\ drifted' = (drifted \/ depth' # Slots)
    /\ UNCHANGED <<failed, rowVars, submit, queued, worker, accepting, faults, sends, lost, doubled,
                   resumed>>

-----------------------------------------------------------------------------

SubmitStep(d) == CountSlot(d) \/ Enqueue(d) \/ UndoSlot(d) \/ MarkFailed(d)

WorkerStep(w) ==
    \/ Claim(w) \/ CheckLimits(w) \/ Record(w) \/ HandOver(w) \/ Resume(w) \/ Poison(w)
    \/ Release(w)
    \/ \E result \in Results : Send(w, result)

TakeJob(d) == \E w \in Workers, a \in queued[d] : StartJob(w, d, a)

Next ==
    \/ \E d \in Deliveries : Trigger(d) \/ SubmitStep(d) \/ TakeJob(d) \/ Requeue(d)
    \/ \E batch \in SUBSET Deliveries : SubmitFails(batch)
    \/ \E w \in Workers : \/ WorkerStep(w) \/ HandOverFails(w) \/ DatabaseFails(w)
                          \/ ReleaseFails(w) \/ WorkerDies(w)
    \/ CountRows \/ SetDepth

Spec == Init /\ [][Next]_vars

\* A triggering process and a worker run on unless they die, and the workers
\* take every job that is due.
Fairness ==
    /\ \A d \in Deliveries : WF_vars(SubmitStep(d)) /\ SF_vars(TakeJob(d))
    /\ \A w \in Workers : WF_vars(WorkerStep(w))

FairSpec == Spec /\ Fairness

-----------------------------------------------------------------------------
(* Properties.                                                             *)

Sending == {"check", "send"} \union Results

\* Two workers never send the same delivery, also when it has several jobs
\* because an enqueue that looked failed had worked or a job was requeued: the
\* claim lets one through.  The exception is a delivery that a worker resumed
\* without a claim after its hand-over failed.
OneSender ==
    \A v, w \in Workers :
        /\ v # w
        /\ worker[v].step \in Sending
        /\ worker[w].step \in Sending
        /\ Id(v) \notin resumed
        => Id(v) # Id(w)

\* The channel is called at most MAX_ATTEMPTS times for a delivery, over all
\* its jobs, workers, hand-overs and requeues, not counting calls whose record
\* was lost, with the same exception.
SendsBounded == \A d \in Deliveries \ resumed : sends[d] <= MaxAttempts

\* The counter is the number of slots taken: every path through submission and
\* delivery, failed enqueues, hand-overs and database calls included, gives its
\* slot back exactly once.  The exceptions, from which on the counter may be off:
\* a process stops while it holds a slot; an increment or decrement raises; a call
\* that raised had added a job; an operator requeues a job, which takes no slot; a
\* worker starts and the rows it counted are not the slots when it sets the counter.
SlotsBalance == drifted \/ depth = Slots

\* A stored delivery is delivered, or fails for good, unless a fault took its job
\* (lost), or a call that raised had added one (doubled), so that a second job or
\* the mark of the failed enqueue gets in the way.
DeliverySettles ==
    \A d \in Deliveries :
        status[d] = "pending" ~> \/ status[d] \in {"delivered", "failed", "poison"}
                                 \/ d \in lost \union doubled

-----------------------------------------------------------------------------
(* What the documentation says and the code does not do.                   *)

\* "Only one worker can claim because we change status atomically": no two
\* workers send one delivery, also when one of them resumed it.
NeverTwoSenders ==
    \A v, w \in Workers :
        v # w /\ {worker[v].step, worker[w].step} \subseteq Sending => Id(v) # Id(w)

\* STUCK_TASK_THRESHOLD_MINUTES: a delivery whose worker died is taken up
\* again.  Nothing starts its job.
StuckIsReclaimed ==
    \A d \in Deliveries : status[d] = "in_progress" ~> status[d] # "in_progress"
===============================================================================
