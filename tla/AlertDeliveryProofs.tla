------------------------- MODULE AlertDeliveryProofs --------------------------
(***************************************************************************)
(* Delivery of alerts, for any number of deliveries, workers, jobs of one  *)
(* delivery, failed calls and deaths: the claim lets one worker through,   *)
(* the channel is not called more often than MAX_ATTEMPTS allows, and the  *)
(* queue depth counts the slots in use.                                    *)
(***************************************************************************)
EXTENDS AlertDelivery, FiniteSetTheorems, TLAPS

\* Max of the two attempt numbers that Claim and Poison compare.
LEMMA MaxOfTwo ==
    ASSUME NEW a \in Nat, NEW b \in Nat
    PROVE  Max({a, b}) = IF a >= b THEN a ELSE b
<1> DEFINE m == IF a >= b THEN a ELSE b
<1>1. m \in {a, b} /\ \A y \in {a, b} : m >= y
  OBVIOUS
<1>2. \A x \in {a, b} : (\A y \in {a, b} : x >= y) => x = m
  OBVIOUS
<1> QED
  BY <1>1, <1>2 DEF Max

JobType == [step : Steps, id : Deliveries \union {NoDelivery}, n : Nat]

\* The parts of TypeOK: the deliveries and their jobs, the flags, and the count
\* that a starting worker has read.
RowsType ==
    /\ status \in [Deliveries -> Statuses]
    /\ attempts \in [Deliveries -> Nat]
    /\ submit \in [Deliveries -> SubmitSteps]
    /\ queued \in [Deliveries -> SUBSET Nat]
    /\ worker \in [Workers -> JobType]
    /\ failed \subseteq Deliveries
    /\ depth \in Nat
    /\ faults \in 0 .. MaxFaults
    /\ sends \in [Deliveries -> Int]
    /\ lost \subseteq Deliveries
    /\ doubled \subseteq Deliveries
    /\ resumed \subseteq Deliveries

FlagsType == accepting \in BOOLEAN /\ drifted \in BOOLEAN
SyncType == syncing \subseteq Nat

\* TypeOK is its three parts.
LEMMA TypeParts == TypeOK <=> RowsType /\ FlagsType /\ SyncType
  BY DEF TypeOK, RowsType, FlagsType, SyncType, JobType

\* The initial state is well typed.
LEMMA TypeInit == Init => TypeOK
<1> SUFFICES ASSUME Init PROVE RowsType /\ FlagsType /\ SyncType
  BY TypeParts
<1>1. RowsType
  BY DepthAssumption DEF Init, RowsType, JobType, Idle, Statuses, SubmitSteps, Steps
<1>2. FlagsType
  BY Zenon DEF Init, FlagsType
<1>3. SyncType
  BY DEF Init, SyncType
<1> QED
  BY <1>1, <1>2, <1>3

\* A worker has a delivery exactly while it executes a job.
Engaged == \A w \in Workers : worker[w].step # "idle" <=> worker[w].id \in Deliveries

\* The flags keep their types.
LEMMA FlagsStep == FlagsType /\ depth \in Nat /\ [Next]_vars => FlagsType'
<1> SUFFICES ASSUME FlagsType, depth \in Nat, [Next]_vars PROVE FlagsType'
  OBVIOUS
<1> USE DEF FlagsType, historyVars
<1>1. CASE UNCHANGED vars
  BY <1>1, Zenon DEF vars
<1>2. ASSUME NEW d \in Deliveries,
             Trigger(d) \/ SubmitStep(d) \/ TakeJob(d) \/ Requeue(d)
      PROVE  FlagsType'
  <2>1. CASE Trigger(d)
    <3>1. (depth < MaxDepth) \in BOOLEAN /\ (depth < ResumeDepth) \in BOOLEAN
      BY depth \in Nat, DepthAssumption, SMT
    <3>2. CASE accepting' = (depth < MaxDepth)
      BY <2>1, <3>1, <3>2, Zenon DEF Trigger
    <3>3. CASE accepting' = (depth < ResumeDepth)
      BY <2>1, <3>1, <3>3, Zenon DEF Trigger
    <3> QED
      BY <2>1, <3>2, <3>3, Zenon DEF Trigger
  <2>2. CASE SubmitStep(d)
    BY <2>2, Zenon DEF SubmitStep, CountSlot, Enqueue, UndoSlot, MarkFailed
  <2>3. CASE TakeJob(d) \/ Requeue(d)
    BY <2>3, Zenon DEF TakeJob, StartJob, Requeue
  <2> QED
    BY <1>2, <2>1, <2>2, <2>3
<1>3. ASSUME NEW w \in Workers,
             \/ WorkerStep(w) \/ HandOverFails(w) \/ DatabaseFails(w)
             \/ ReleaseFails(w) \/ WorkerDies(w)
      PROVE  FlagsType'
  BY <1>3, Zenon DEF WorkerStep, Claim, CheckLimits, Record, HandOver, Resume, Poison, Release,
                     Send, HandOverFails, DatabaseFails, ReleaseFails, WorkerDies
<1>4. CASE CountRows \/ SetDepth
  BY <1>4, Zenon DEF CountRows, SetDepth
<1>5. ASSUME NEW batch \in SUBSET Deliveries, SubmitFails(batch) PROVE FlagsType'
  BY <1>5, Zenon DEF SubmitFails
<1> QED
  BY <1>1, <1>2, <1>3, <1>4, <1>5 DEF Next

\* A starting worker counts a number of rows.
LEMMA SyncStep == SyncType /\ [Next]_vars => SyncType'
<1> SUFFICES ASSUME SyncType, [Next]_vars PROVE SyncType'
  OBVIOUS
<1> USE DEF SyncType
<1>1. CASE UNCHANGED syncing
  BY <1>1
<1>2. CASE CountRows
  <2>1. Cardinality({d \in Deliveries : status[d] \in {"pending", "in_progress"}}) \in Nat
    BY FS_Subset, FS_CardinalityType, DeliveriesAssumption,
       {d \in Deliveries : status[d] \in {"pending", "in_progress"}} \in SUBSET Deliveries
  <2> QED
    BY <1>2, <2>1 DEF CountRows
<1>3. CASE SetDepth
  BY <1>3 DEF SetDepth
<1>4. ASSUME NEW d \in Deliveries, Trigger(d) \/ SubmitStep(d) \/ TakeJob(d) \/ Requeue(d)
      PROVE  UNCHANGED syncing
  BY <1>4, Zenon DEF Trigger, SubmitStep, CountSlot, Enqueue, UndoSlot, MarkFailed, TakeJob, StartJob,
                     Requeue
<1>5. ASSUME NEW w \in Workers,
             \/ WorkerStep(w) \/ HandOverFails(w) \/ DatabaseFails(w)
             \/ ReleaseFails(w) \/ WorkerDies(w)
      PROVE  UNCHANGED syncing
  BY <1>5, Zenon DEF WorkerStep, Claim, CheckLimits, Record, HandOver, Resume, Poison, Release,
                     Send, HandOverFails, DatabaseFails, ReleaseFails, WorkerDies
<1> QED
  BY <1>1, <1>2, <1>3, <1>4, <1>5, Zenon DEF Next, SubmitFails, vars

\* The deliveries and their jobs keep their types.
LEMMA RowsStep == RowsType /\ SyncType /\ Engaged /\ [Next]_vars => RowsType' /\ Engaged'
<1> SUFFICES ASSUME RowsType, SyncType, Engaged, [Next]_vars PROVE RowsType' /\ Engaged'
  OBVIOUS
<1> USE DeliveriesAssumption, DepthAssumption
        DEF RowsType, Engaged, JobType, Statuses, SubmitSteps, Steps, Results, Idle, rowVars,
            historyVars, Fault, Increment, Decrement
<1>1. CASE UNCHANGED vars
  BY <1>1 DEF vars
<1>2. ASSUME NEW d \in Deliveries,
             Trigger(d) \/ SubmitStep(d) \/ TakeJob(d) \/ Requeue(d)
      PROVE  RowsType' /\ Engaged'
  <2>1. CASE Trigger(d)
    BY <2>1 DEF Trigger
  <2>2. CASE CountSlot(d)
    BY <2>2 DEF CountSlot
  <2>3. CASE Enqueue(d)
    BY <2>3 DEF Enqueue
  <2>4. CASE UndoSlot(d)
    BY <2>4 DEF UndoSlot
  <2>5. CASE MarkFailed(d)
    BY <2>5 DEF MarkFailed
  <2>6. CASE TakeJob(d)
    BY <2>6 DEF TakeJob, StartJob, At
  <2>7. CASE Requeue(d)
    BY <2>7 DEF Requeue
  <2> QED
    BY <1>2, <2>1, <2>2, <2>3, <2>4, <2>5, <2>6, <2>7 DEF SubmitStep
<1>3. ASSUME NEW w \in Workers,
             \/ WorkerStep(w) \/ HandOverFails(w) \/ DatabaseFails(w)
             \/ ReleaseFails(w) \/ WorkerDies(w)
      PROVE  RowsType' /\ Engaged'
  <2> USE DEF At, Goto, GotoNext, Stop, Id, JobFails, RecordAttempt, Forget
  <2>1. CASE Claim(w)
    <3>1. Id(w) \in Deliveries /\ worker[w].n \in Nat /\ attempts[Id(w)] \in Nat
      BY <2>1 DEF Claim
    <3>2. Max({worker[w].n, attempts[Id(w)]}) \in Nat
      BY <3>1, MaxOfTwo
    <3> QED
      BY <2>1, <3>1, <3>2 DEF Claim
  <2>a. ASSUME NEW new \in Statuses, RecordAttempt(w, new), worker[w].step # "idle"
        PROVE  status' \in [Deliveries -> Statuses] /\ attempts' \in [Deliveries -> Nat]
    BY <2>a
  <2>b. ASSUME NEW step \in Steps \ {"idle"}, worker[w].step # "idle",
               Goto(w, step) \/ GotoNext(w, step)
        PROVE  worker' \in [Workers -> JobType] /\ Engaged'
    BY <2>b
  <2>2. CASE CheckLimits(w)
    <3>1. \/ Goto(w, "send") \/ Goto(w, "poison") \/ GotoNext(w, "requeue_limited")
      BY <2>2 DEF CheckLimits
    <3>2. UNCHANGED rowVars \/ RecordAttempt(w, "failed") \/ RecordAttempt(w, "pending")
      BY <2>2 DEF CheckLimits
    <3>3. worker[w].step # "idle" /\ UNCHANGED <<failed, submit, queued, depth, faults, historyVars>>
      BY <2>2 DEF CheckLimits
    <3>4. status' \in [Deliveries -> Statuses] /\ attempts' \in [Deliveries -> Nat]
      BY <2>a, <3>2, <3>3
    <3>5. worker' \in [Workers -> JobType] /\ Engaged'
      BY <2>b, <3>1, <3>3
    <3> QED
      BY <3>3, <3>4, <3>5
  <2>3. CASE Record(w)
    <3>1. \/ Goto(w, "release") \/ Goto(w, "poison") \/ GotoNext(w, "check")
          \/ GotoNext(w, "requeue_failed")
      BY <2>3 DEF Record
    <3>2. \E new \in Statuses : RecordAttempt(w, new)
      BY <2>3 DEF Record
    <3>3. worker[w].step # "idle" /\ UNCHANGED <<failed, submit, queued, depth, faults, historyVars>>
      BY <2>3 DEF Record
    <3>4. status' \in [Deliveries -> Statuses] /\ attempts' \in [Deliveries -> Nat]
      BY <2>a, <3>2, <3>3
    <3>a. ASSUME Goto(w, "release") \/ Goto(w, "poison")
          PROVE  worker' \in [Workers -> JobType] /\ Engaged'
      BY <2>b, <3>3, <3>a
    <3>b. ASSUME GotoNext(w, "check") \/ GotoNext(w, "requeue_failed")
          PROVE  worker' \in [Workers -> JobType] /\ Engaged'
      BY <2>b, <3>3, <3>b
    <3>5. worker' \in [Workers -> JobType] /\ Engaged'
      BY <3>1, <3>a, <3>b
    <3> QED
      BY <3>3, <3>4, <3>5
  <2>4. CASE HandOver(w)
    BY <2>4 DEF HandOver, Scheduled
  <2>5. CASE Resume(w)
    BY <2>5 DEF Resume
  <2>6. CASE Poison(w)
    <3>1. Id(w) \in Deliveries /\ worker[w].n \in Nat /\ attempts[Id(w)] \in Nat
      BY <2>6 DEF Poison
    <3>2. Max({attempts[Id(w)], worker[w].n}) \in Nat
      BY <3>1, MaxOfTwo
    <3> QED
      BY <2>6, <3>1, <3>2 DEF Poison
  <2>7. CASE Release(w)
    BY <2>7 DEF Release
  <2>8. ASSUME NEW result \in Results, Send(w, result) PROVE RowsType' /\ Engaged'
    BY <2>8 DEF Send
  <2>9. CASE HandOverFails(w)
    BY <2>9 DEF HandOverFails, Scheduled
  <2>10. CASE DatabaseFails(w)
    BY <2>10 DEF DatabaseFails
  <2>11. CASE WorkerDies(w)
    BY <2>11 DEF WorkerDies
  <2>12. CASE ReleaseFails(w)
    BY <2>12 DEF ReleaseFails
  <2> QED
    BY <1>3, <2>1, <2>2, <2>3, <2>4, <2>5, <2>6, <2>7, <2>8, <2>9, <2>10, <2>11, <2>12
       DEF WorkerStep
<1>4. CASE CountRows
  BY <1>4 DEF CountRows
<1>5. CASE SetDepth
  BY <1>5 DEF SetDepth, SyncType
<1>6. ASSUME NEW batch \in SUBSET Deliveries, SubmitFails(batch) PROVE RowsType' /\ Engaged'
  BY <1>6 DEF SubmitFails
<1> QED
  BY <1>1, <1>2, <1>3, <1>4, <1>5, <1>6 DEF Next

\* Submitters, workers, failures, deaths and requeues keep the rows, the jobs
\* and the counter within their types.
THEOREM AlertsTypeCorrect == Spec => []TypeOK
<1>1. Init => Engaged
  BY DeliveriesAssumption DEF Init, Engaged, Idle
<1>2. TypeOK /\ Engaged /\ [Next]_vars => TypeOK' /\ Engaged'
  <2> SUFFICES ASSUME RowsType, FlagsType, SyncType, Engaged, [Next]_vars
               PROVE  RowsType' /\ FlagsType' /\ SyncType' /\ Engaged'
    BY TypeParts DEF TypeOK, RowsType, FlagsType, SyncType, JobType
  <2> QED
    BY RowsStep, FlagsStep, SyncStep DEF RowsType
<1> QED
  BY <1>1, <1>2, TypeInit, PTL DEF Spec

-----------------------------------------------------------------------------
(* The inductive invariant.                                                *)

\* A worker that sends or gives up holds the delivery.
Holding == Sending \union {"poison"}

\* No job starts an attempt beyond the last.
BoundsInv ==
    /\ \A d \in Deliveries : attempts[d] <= MaxAttempts /\ \A a \in queued[d] : a <= MaxAttempts
    /\ \A w \in Workers :
        /\ worker[w].n <= MaxAttempts
        /\ worker[w].step \in Sending \union {"requeue_limited", "resume"}
               => worker[w].n < MaxAttempts

\* A delivery that was never stored has no job.
FreshInv ==
    \A d \in Deliveries : submit[d] = "none" =>
        queued[d] = {} /\ d \notin failed /\ \A w \in Workers : Id(w) # d

\* A delivery that is held cannot be claimed, and is held once.
HolderInv ==
    \A w \in Workers : worker[w].step \in Holding /\ Id(w) \notin resumed =>
        /\ status[Id(w)] # "pending"
        /\ \A v \in Workers : worker[v].step \in Holding /\ Id(v) = Id(w) => v = w

\* No job knows more attempts than the row, a worker that sends knows them all,
\* and only the call in progress is not among them.
CountInv ==
    \A d \in Deliveries \ resumed :
        /\ \A a \in queued[d] : a <= attempts[d]
        /\ \A w \in Workers : Id(w) = d =>
               /\ worker[w].n <= attempts[d]
               /\ worker[w].step \in Sending => worker[w].n = attempts[d]
        /\ sends[d] <= attempts[d] + 1
        /\ (\A w \in Workers : Id(w) = d => worker[w].step \notin Results) => sends[d] <= attempts[d]

Inv == BoundsInv /\ FreshInv /\ HolderInv /\ CountInv

\* A job never goes beyond the last attempt.
LEMMA BoundsStep == RowsType /\ Engaged /\ BoundsInv /\ [Next]_vars => BoundsInv'
<1> SUFFICES ASSUME RowsType, Engaged, BoundsInv, [Next]_vars PROVE BoundsInv'
  OBVIOUS
<1> USE DeliveriesAssumption, DepthAssumption
        DEF RowsType, Engaged, JobType, Results, Sending, Idle, rowVars, historyVars, Id,
            BoundsInv
<1>1. CASE UNCHANGED vars
  BY <1>1 DEF vars
<1>2. ASSUME NEW d \in Deliveries,
             Trigger(d) \/ SubmitStep(d) \/ TakeJob(d) \/ Requeue(d)
      PROVE  BoundsInv'
  <2>1. CASE Trigger(d)
    BY <2>1 DEF Trigger, At
  <2>2. CASE CountSlot(d)
    BY <2>2 DEF CountSlot, At
  <2>3. CASE Enqueue(d)
    BY <2>3 DEF Enqueue, At
  <2>4. CASE UndoSlot(d)
    BY <2>4 DEF UndoSlot, At
  <2>5. CASE MarkFailed(d)
    BY <2>5 DEF MarkFailed, At
  <2>6. CASE TakeJob(d)
    BY <2>6 DEF TakeJob, StartJob, At
  <2>7. CASE Requeue(d)
    BY <2>7 DEF Requeue, At
  <2> QED
    BY <1>2, <2>1, <2>2, <2>3, <2>4, <2>5, <2>6, <2>7 DEF SubmitStep
<1>3. ASSUME NEW w \in Workers,
             \/ WorkerStep(w) \/ HandOverFails(w) \/ DatabaseFails(w)
             \/ ReleaseFails(w) \/ WorkerDies(w)
      PROVE  BoundsInv'
  <2> USE DEF At, Goto, GotoNext, Stop, JobFails, RecordAttempt, Forget
  <2>1. CASE Claim(w)
    <3>1. Id(w) \in Deliveries /\ worker[w].n \in Nat /\ attempts[Id(w)] \in Nat
      BY <2>1 DEF Claim
    <3>2. Max({worker[w].n, attempts[Id(w)]}) = IF worker[w].n >= attempts[Id(w)] THEN worker[w].n ELSE attempts[Id(w)]
      BY <3>1, MaxOfTwo
    <3> QED
      BY <2>1, <3>1, <3>2 DEF Claim, Stuck
  <2>2. CASE CheckLimits(w)
    BY <2>2 DEF CheckLimits, LastAttempt
  <2>3. CASE Record(w)
    <3>1. worker[w].step \in Results /\ UNCHANGED <<failed, submit, queued, historyVars>>
      BY <2>3 DEF Record
    <3>2. attempts' = [attempts EXCEPT ![Id(w)] = worker[w].n + 1]
      BY <2>3 DEF Record
    <3>3. \/ Goto(w, "release") \/ Goto(w, "poison")
          \/ ~LastAttempt(w) /\ (GotoNext(w, "check") \/ GotoNext(w, "requeue_failed"))
      BY <2>3 DEF Record
    <3>a. Id(w) \in Deliveries /\ worker[w].n + 1 <= MaxAttempts
      BY <3>1
    <3>b. \A d \in Deliveries : /\ attempts'[d] <= MaxAttempts
                                /\ \A a \in queued'[d] : a <= MaxAttempts
      BY <3>1, <3>2, <3>a
    <3>4. CASE Goto(w, "release") \/ Goto(w, "poison")
      <4>1. \A v \in Workers : worker'[v].n = worker[v].n
        BY <3>4
      <4>2. /\ \A v \in Workers \ {w} : worker'[v] = worker[v]
            /\ worker'[w].step \in {"release", "poison"}
        BY <3>4
      <4> QED
        BY <3>b, <4>1, <4>2
    <3>5. CASE ~LastAttempt(w) /\ (GotoNext(w, "check") \/ GotoNext(w, "requeue_failed"))
      BY <3>1, <3>2, <3>5 DEF LastAttempt
    <3> QED
      BY <3>3, <3>4, <3>5
  <2>4. CASE HandOver(w)
    BY <2>4 DEF HandOver, Scheduled
  <2>5. CASE Resume(w)
    BY <2>5 DEF Resume
  <2>6. CASE Poison(w)
    <3>1. Id(w) \in Deliveries /\ worker[w].n \in Nat /\ attempts[Id(w)] \in Nat
      BY <2>6 DEF Poison
    <3>2. Max({attempts[Id(w)], worker[w].n}) = IF worker[w].n >= attempts[Id(w)] THEN worker[w].n ELSE attempts[Id(w)]
      BY <3>1, MaxOfTwo
    <3> QED
      BY <2>6, <3>1, <3>2 DEF Poison
  <2>7. CASE Release(w)
    BY <2>7 DEF Release
  <2>8. ASSUME NEW result \in Results, Send(w, result) PROVE BoundsInv'
    BY <2>8 DEF Send
  <2>9. CASE HandOverFails(w)
    BY <2>9 DEF HandOverFails, Scheduled
  <2>10. CASE DatabaseFails(w)
    BY <2>10 DEF DatabaseFails
  <2>11. CASE WorkerDies(w)
    BY <2>11 DEF WorkerDies
  <2>12. CASE ReleaseFails(w)
    BY <2>12 DEF ReleaseFails
  <2> QED
    BY <1>3, <2>1, <2>2, <2>3, <2>4, <2>5, <2>6, <2>7, <2>8, <2>9, <2>10, <2>11, <2>12
       DEF WorkerStep
<1>4. CASE CountRows \/ SetDepth
  BY <1>4 DEF CountRows, SetDepth
<1>5. ASSUME NEW batch \in SUBSET Deliveries, SubmitFails(batch) PROVE BoundsInv'
  BY <1>5 DEF SubmitFails
<1> QED
  BY <1>1, <1>2, <1>3, <1>4, <1>5 DEF Next

\* Jobs come from stored deliveries.
LEMMA FreshStep == RowsType /\ Engaged /\ FreshInv /\ [Next]_vars => FreshInv'
<1> SUFFICES ASSUME RowsType, Engaged, FreshInv, [Next]_vars PROVE FreshInv'
  OBVIOUS
<1> USE DeliveriesAssumption, DepthAssumption
        DEF RowsType, Engaged, JobType, Results, Sending, Idle, rowVars, historyVars, Id,
            FreshInv
<1>1. CASE UNCHANGED vars
  BY <1>1 DEF vars
<1>2. ASSUME NEW d \in Deliveries,
             Trigger(d) \/ SubmitStep(d) \/ TakeJob(d) \/ Requeue(d)
      PROVE  FreshInv'
  <2>1. CASE Trigger(d)
    BY <2>1 DEF Trigger, At
  <2>2. CASE CountSlot(d)
    BY <2>2 DEF CountSlot, At
  <2>3. CASE Enqueue(d)
    BY <2>3 DEF Enqueue, At
  <2>4. CASE UndoSlot(d)
    BY <2>4 DEF UndoSlot, At
  <2>5. CASE MarkFailed(d)
    BY <2>5 DEF MarkFailed, At
  <2>6. CASE TakeJob(d)
    BY <2>6 DEF TakeJob, StartJob, At
  <2>7. CASE Requeue(d)
    BY <2>7 DEF Requeue, At
  <2> QED
    BY <1>2, <2>1, <2>2, <2>3, <2>4, <2>5, <2>6, <2>7 DEF SubmitStep
<1>3. ASSUME NEW w \in Workers,
             \/ WorkerStep(w) \/ HandOverFails(w) \/ DatabaseFails(w)
             \/ ReleaseFails(w) \/ WorkerDies(w)
      PROVE  FreshInv'
  <2> USE DEF At, Goto, GotoNext, Stop, JobFails, RecordAttempt, Forget
  <2>1. CASE Claim(w)
    <3>1. \A v \in Workers : worker'[v].id \in {worker[v].id, NoDelivery}
      BY <2>1 DEF Claim
    <3>2. UNCHANGED <<submit, queued>> /\ failed' \subseteq failed \union {Id(w)}
      BY <2>1 DEF Claim
    <3> QED
      BY <3>1, <3>2
  <2>2. CASE CheckLimits(w)
    BY <2>2 DEF CheckLimits, LastAttempt
  <2>3. CASE Record(w)
    BY <2>3 DEF Record, LastAttempt
  <2>4. CASE HandOver(w)
    BY <2>4 DEF HandOver, Scheduled
  <2>5. CASE Resume(w)
    BY <2>5 DEF Resume
  <2>6. CASE Poison(w)
    <3>1. Id(w) \in Deliveries /\ worker[w].n \in Nat /\ attempts[Id(w)] \in Nat
      BY <2>6 DEF Poison
    <3>2. Max({attempts[Id(w)], worker[w].n}) = IF worker[w].n >= attempts[Id(w)] THEN worker[w].n ELSE attempts[Id(w)]
      BY <3>1, MaxOfTwo
    <3> QED
      BY <2>6, <3>1, <3>2 DEF Poison
  <2>7. CASE Release(w)
    BY <2>7 DEF Release
  <2>8. ASSUME NEW result \in Results, Send(w, result) PROVE FreshInv'
    BY <2>8 DEF Send
  <2>9. CASE HandOverFails(w)
    BY <2>9 DEF HandOverFails, Scheduled
  <2>10. CASE DatabaseFails(w)
    BY <2>10 DEF DatabaseFails
  <2>11. CASE WorkerDies(w)
    BY <2>11 DEF WorkerDies
  <2>12. CASE ReleaseFails(w)
    BY <2>12 DEF ReleaseFails
  <2> QED
    BY <1>3, <2>1, <2>2, <2>3, <2>4, <2>5, <2>6, <2>7, <2>8, <2>9, <2>10, <2>11, <2>12
       DEF WorkerStep
<1>4. CASE CountRows \/ SetDepth
  BY <1>4 DEF CountRows, SetDepth
<1>5. ASSUME NEW batch \in SUBSET Deliveries, SubmitFails(batch) PROVE FreshInv'
  BY <1>5 DEF SubmitFails
<1> QED
  BY <1>1, <1>2, <1>3, <1>4, <1>5 DEF Next

\* A claim takes only what nobody holds.
LEMMA HolderStep == RowsType /\ Engaged /\ FreshInv /\ HolderInv /\ [Next]_vars => HolderInv'
<1> SUFFICES ASSUME RowsType, Engaged, FreshInv, HolderInv, [Next]_vars PROVE HolderInv'
  OBVIOUS
<1> USE DeliveriesAssumption, DepthAssumption
        DEF RowsType, Engaged, JobType, Results, Sending, Idle, rowVars, historyVars, Id,
            FreshInv, HolderInv, Holding
<1>1. CASE UNCHANGED vars
  BY <1>1 DEF vars
<1>2. ASSUME NEW d \in Deliveries,
             Trigger(d) \/ SubmitStep(d) \/ TakeJob(d) \/ Requeue(d)
      PROVE  HolderInv'
  <2>1. CASE Trigger(d)
    BY <2>1 DEF Trigger, At
  <2>2. CASE CountSlot(d)
    BY <2>2 DEF CountSlot, At
  <2>3. CASE Enqueue(d)
    BY <2>3 DEF Enqueue, At
  <2>4. CASE UndoSlot(d)
    BY <2>4 DEF UndoSlot, At
  <2>5. CASE MarkFailed(d)
    BY <2>5 DEF MarkFailed, At
  <2>6. CASE TakeJob(d)
    BY <2>6 DEF TakeJob, StartJob, At
  <2>7. CASE Requeue(d)
    BY <2>7 DEF Requeue, At
  <2> QED
    BY <1>2, <2>1, <2>2, <2>3, <2>4, <2>5, <2>6, <2>7 DEF SubmitStep
<1>3. ASSUME NEW w \in Workers,
             \/ WorkerStep(w) \/ HandOverFails(w) \/ DatabaseFails(w)
             \/ ReleaseFails(w) \/ WorkerDies(w)
      PROVE  HolderInv'
  <2> USE DEF At, Goto, GotoNext, Stop, JobFails, RecordAttempt, Forget
  <2>1. CASE Claim(w)
    <3>0. Id(w) \in Deliveries /\ resumed' = resumed
      BY <2>1 DEF Claim
    <3>1. CASE /\ status[Id(w)] = "pending" \/ Stuck(Id(w))
               /\ status' = [status EXCEPT ![Id(w)] = "in_progress"]
               /\ \A v \in Workers : /\ worker'[v].id = worker[v].id
                                     /\ v # w => worker'[v] = worker[v]
      <4>1. Id(w) \notin resumed =>
                \A v \in Workers : worker[v].step \in Holding => Id(v) # Id(w)
        BY <3>1 DEF Stuck
      <4> QED
        BY <3>0, <3>1, <4>1
    <3>2. CASE UNCHANGED status /\ Stop(w)
      BY <3>0, <3>2
    <3> QED
      BY <2>1, <3>1, <3>2 DEF Claim
  <2>2. CASE CheckLimits(w)
    BY <2>2 DEF CheckLimits, LastAttempt
  <2>3. CASE Record(w)
    <3>1. worker[w].step \in Results /\ UNCHANGED resumed
      BY <2>3 DEF Record
    <3>2. PICK new \in Statuses : RecordAttempt(w, new)
      BY <2>3 DEF Record, Statuses
    <3>3. CASE new # "pending" /\ (Goto(w, "release") \/ Goto(w, "poison") \/ GotoNext(w, "check"))
      <4>1. /\ Id(w) \in Deliveries
            /\ \A d \in Deliveries : status'[d] # status[d] => d = Id(w) /\ status'[d] # "pending"
        BY <3>1, <3>2, <3>3
      <4>2. /\ \A v \in Workers \ {w} : worker'[v] = worker[v]
            /\ worker'[w].id = worker[w].id
        BY <3>3
      <4>3. \A v \in Workers : worker'[v].step \in Holding => worker[v].step \in Holding
        BY <3>1, <4>2
      <4> QED
        BY <3>1, <3>3, <4>1, <4>2, <4>3
    <3>4. CASE GotoNext(w, "requeue_failed")
      BY <3>1, <3>2, <3>4
    <3> QED
      BY <2>3, <3>2, <3>3, <3>4 DEF Record
  <2>4. CASE HandOver(w)
    BY <2>4 DEF HandOver, Scheduled
  <2>5. CASE Resume(w)
    BY <2>5 DEF Resume
  <2>6. CASE Poison(w)
    <3>1. Id(w) \in Deliveries /\ worker[w].n \in Nat /\ attempts[Id(w)] \in Nat
      BY <2>6 DEF Poison
    <3>2. Max({attempts[Id(w)], worker[w].n}) = IF worker[w].n >= attempts[Id(w)] THEN worker[w].n ELSE attempts[Id(w)]
      BY <3>1, MaxOfTwo
    <3> QED
      BY <2>6, <3>1, <3>2 DEF Poison
  <2>7. CASE Release(w)
    BY <2>7 DEF Release
  <2>8. ASSUME NEW result \in Results, Send(w, result) PROVE HolderInv'
    BY <2>8 DEF Send
  <2>9. CASE HandOverFails(w)
    BY <2>9 DEF HandOverFails, Scheduled
  <2>10. CASE DatabaseFails(w)
    BY <2>10 DEF DatabaseFails
  <2>11. CASE WorkerDies(w)
    BY <2>11 DEF WorkerDies
  <2>12. CASE ReleaseFails(w)
    BY <2>12 DEF ReleaseFails
  <2> QED
    BY <1>3, <2>1, <2>2, <2>3, <2>4, <2>5, <2>6, <2>7, <2>8, <2>9, <2>10, <2>11, <2>12
       DEF WorkerStep
<1>4. CASE CountRows \/ SetDepth
  BY <1>4 DEF CountRows, SetDepth
<1>5. ASSUME NEW batch \in SUBSET Deliveries, SubmitFails(batch) PROVE HolderInv'
  BY <1>5 DEF SubmitFails
<1> QED
  BY <1>1, <1>2, <1>3, <1>4, <1>5 DEF Next

\* The row counts the calls.
LEMMA CountStep == RowsType /\ Engaged /\ HolderInv /\ CountInv /\ [Next]_vars => CountInv'
<1> SUFFICES ASSUME RowsType, Engaged, HolderInv, CountInv, [Next]_vars PROVE CountInv'
  OBVIOUS
<1> USE DeliveriesAssumption, DepthAssumption
        DEF RowsType, Engaged, JobType, Results, Sending, Idle, rowVars, historyVars, Id,
            HolderInv, Holding, CountInv
<1>1. CASE UNCHANGED vars
  BY <1>1 DEF vars
<1>2. ASSUME NEW d \in Deliveries,
             Trigger(d) \/ SubmitStep(d) \/ TakeJob(d) \/ Requeue(d)
      PROVE  CountInv'
  <2>1. CASE Trigger(d)
    BY <2>1 DEF Trigger, At
  <2>2. CASE CountSlot(d)
    BY <2>2 DEF CountSlot, At
  <2>3. CASE Enqueue(d)
    BY <2>3 DEF Enqueue, At
  <2>4. CASE UndoSlot(d)
    BY <2>4 DEF UndoSlot, At
  <2>5. CASE MarkFailed(d)
    BY <2>5 DEF MarkFailed, At
  <2>6. CASE TakeJob(d)
    <3>1. PICK w \in Workers, a \in queued[d] : StartJob(w, d, a)
      BY <2>6 DEF TakeJob
    <3>2. /\ worker' = [worker EXCEPT ![w] = [step |-> "claim", id |-> d, n |-> a]]
          /\ queued' = [queued EXCEPT ![d] = @ \ {a}]
          /\ UNCHANGED <<attempts, sends, resumed>>
          /\ worker[w].step = "idle"
      BY <3>1 DEF StartJob, At
    <3>3. \A e \in Deliveries : queued'[e] \subseteq queued[e]
      BY <3>2
    <3> QED
      BY <3>2, <3>3
  <2>7. CASE Requeue(d)
    BY <2>7 DEF Requeue, At
  <2> QED
    BY <1>2, <2>1, <2>2, <2>3, <2>4, <2>5, <2>6, <2>7 DEF SubmitStep
<1>3. ASSUME NEW w \in Workers,
             \/ WorkerStep(w) \/ HandOverFails(w) \/ DatabaseFails(w)
             \/ ReleaseFails(w) \/ WorkerDies(w)
      PROVE  CountInv'
  <2> USE DEF At, Goto, GotoNext, Stop, JobFails, RecordAttempt, Forget
  <2>1. CASE Claim(w)
    <3>1. Id(w) \in Deliveries /\ worker[w].n \in Nat /\ attempts[Id(w)] \in Nat
      BY <2>1 DEF Claim
    <3>2. Max({worker[w].n, attempts[Id(w)]}) = IF worker[w].n >= attempts[Id(w)] THEN worker[w].n ELSE attempts[Id(w)]
      BY <3>1, MaxOfTwo
    <3>b. Id(w) \notin resumed => worker[w].n <= attempts[Id(w)]
      BY <3>1
    <3>c. Id(w) \notin resumed => Max({worker[w].n, attempts[Id(w)]}) = attempts[Id(w)]
      BY <3>1, <3>2, <3>b
    <3>3. UNCHANGED <<attempts, queued, sends, resumed>> /\ worker[w].step = "claim"
      BY <2>1 DEF Claim
    <3>4. CASE Stop(w)
      BY <3>3, <3>4
    <3>a. ASSUME NEW m \in Nat, NEW step \in {"check", "poison"},
                 worker' = [worker EXCEPT ![w].n = m, ![w].step = step]
          PROVE  /\ \A v \in Workers \ {w} : worker'[v] = worker[v]
                 /\ worker'[w].id = worker[w].id /\ worker'[w].n = m /\ worker'[w].step = step
      <4>1. worker'[w] = [worker[w] EXCEPT !.n = m, !.step = step]
        BY <3>a
      <4>2. worker[w] \in JobType
        BY DEF JobType
      <4>3. \A v \in Workers \ {w} : worker'[v] = worker[v]
        BY <3>a
      <4> QED
        BY <4>1, <4>2, <4>3
    <3>5. CASE worker' = [worker EXCEPT
                  ![w].n = Max({worker[w].n, attempts[Id(w)]}),
                  ![w].step = IF Max({worker[w].n, attempts[Id(w)]}) < MaxAttempts THEN "check" ELSE "poison"]
      <4>0. Max({worker[w].n, attempts[Id(w)]}) \in Nat
        BY <3>1, <3>2
      <4>a. (IF Max({worker[w].n, attempts[Id(w)]}) < MaxAttempts THEN "check" ELSE "poison") \in {"check", "poison"}
        OBVIOUS
      <4>b. PICK m \in Nat, step \in {"check", "poison"} :
                /\ m = Max({worker[w].n, attempts[Id(w)]})
                /\ worker' = [worker EXCEPT ![w].n = m, ![w].step = step]
        BY <3>5, <4>0, <4>a, Zenon
      <4>1. /\ \A v \in Workers \ {w} : worker'[v] = worker[v]
            /\ worker'[w].id = worker[w].id
            /\ worker'[w].n = Max({worker[w].n, attempts[Id(w)]})
            /\ worker'[w].step \in {"check", "poison"}
        BY <3>a, <4>b, Zenon
      <4>2. Id(w) \notin resumed => worker'[w].n = attempts[Id(w)]
        BY <3>c, <4>1, Zenon
      <4> QED
        BY <3>1, <3>3, <4>1, <4>2
    <3> QED
      BY <2>1, <3>4, <3>5, Zenon DEF Claim
  <2>2. CASE CheckLimits(w)
    <3>1. worker[w].step = "check" /\ UNCHANGED <<queued, sends, resumed>>
      BY <2>2 DEF CheckLimits
    <3>2. CASE Goto(w, "send") /\ UNCHANGED rowVars
      BY <3>1, <3>2
    <3>3. CASE /\ attempts' = [attempts EXCEPT ![Id(w)] = worker[w].n + 1]
               /\ Goto(w, "poison") \/ GotoNext(w, "requeue_limited")
      <4>1. Id(w) \in Deliveries /\ (Id(w) \notin resumed => worker[w].n = attempts[Id(w)])
        BY <3>1
      <4>2. \A d \in Deliveries \ resumed :
                attempts'[d] = IF d = Id(w) THEN attempts[d] + 1 ELSE attempts[d]
        BY <3>3, <4>1
      <4>3. /\ \A v \in Workers \ {w} : worker'[v] = worker[v]
            /\ worker'[w].id = worker[w].id
            /\ worker'[w].n \in {worker[w].n, worker[w].n + 1}
            /\ worker'[w].step \in {"poison", "requeue_limited"}
        BY <3>3
      <4>4. \A v \in Workers : worker'[v].step \in Sending /\ Id(v) \notin resumed => Id(v) # Id(w)
        BY <3>1, <4>3
      <4> QED
        BY <3>1, <4>1, <4>2, <4>3, <4>4
    <3> QED
      BY <2>2, <3>2, <3>3 DEF CheckLimits
  <2>3. CASE Record(w)
    <3>1. worker[w].step \in Results /\ UNCHANGED <<queued, sends, resumed>>
      BY <2>3 DEF Record
    <3>2. attempts' = [attempts EXCEPT ![Id(w)] = worker[w].n + 1]
      BY <2>3 DEF Record
    <3>3. \/ Goto(w, "release") \/ Goto(w, "poison")
          \/ GotoNext(w, "check") \/ GotoNext(w, "requeue_failed")
      BY <2>3 DEF Record
    <3>4. Id(w) \in Deliveries /\ (Id(w) \notin resumed => worker[w].n = attempts[Id(w)])
      BY <3>1
    <3>5. \A d \in Deliveries \ resumed :
              attempts'[d] = IF d = Id(w) THEN attempts[d] + 1 ELSE attempts[d]
      BY <3>2, <3>4
    <3>6. /\ \A v \in Workers \ {w} : worker'[v] = worker[v]
          /\ worker'[w].id = worker[w].id
          /\ worker'[w].n \in {worker[w].n, worker[w].n + 1}
          /\ worker'[w].step \in {"release", "poison", "check", "requeue_failed"}
          /\ worker'[w].step = "check" => worker'[w].n = worker[w].n + 1
      BY <3>3
    <3>7. \A v \in Workers \ {w} :
              worker'[v].step \in Sending /\ Id(v) \notin resumed => Id(v) # Id(w)
      BY <3>1, <3>6
    <3> QED
      BY <3>1, <3>4, <3>5, <3>6, <3>7
  <2>4. CASE HandOver(w)
    BY <2>4 DEF HandOver, Scheduled
  <2>5. CASE Resume(w)
    <3>1. /\ attempts' = [attempts EXCEPT ![Id(w)] = worker[w].n]
          /\ worker' = [worker EXCEPT ![w].step = "check"]
          /\ resumed' = resumed \union {Id(w)}
          /\ worker[w].step = "resume"
          /\ UNCHANGED <<queued, sends>>
      BY <2>5 DEF Resume
    <3>2. \A d \in Deliveries \ resumed' : d # Id(w) /\ d \notin resumed /\ attempts'[d] = attempts[d]
      BY <3>1
    <3>3. \A v \in Workers : Id(v) # Id(w) => worker'[v] = worker[v]
      BY <3>1
    <3>4. \A v \in Workers : worker'[v].id = worker[v].id
      BY <3>1
    <3> QED
      BY <3>1, <3>2, <3>3, <3>4
  <2>6. CASE Poison(w)
    <3>1. Id(w) \in Deliveries /\ worker[w].n \in Nat /\ attempts[Id(w)] \in Nat
      BY <2>6 DEF Poison
    <3>2. Max({attempts[Id(w)], worker[w].n}) = IF worker[w].n >= attempts[Id(w)] THEN worker[w].n ELSE attempts[Id(w)]
      BY <3>1, MaxOfTwo
    <3>3. /\ worker' = [worker EXCEPT ![w].step = "release"]
          /\ worker[w].step = "poison"
          /\ UNCHANGED <<queued, sends, resumed>>
      BY <2>6 DEF Poison
    <3>4. attempts' = [attempts EXCEPT ![Id(w)] =
                          IF worker[w].n >= attempts[Id(w)] THEN worker[w].n ELSE attempts[Id(w)]]
      BY <2>6, <3>2 DEF Poison
    <3>5. Id(w) \notin resumed => attempts' = attempts
      BY <3>1, <3>4
    <3>6. \A d \in Deliveries \ resumed : attempts'[d] = attempts[d]
      BY <3>1, <3>4, <3>5
    <3> QED
      BY <3>3, <3>6
  <2>7. CASE Release(w)
    BY <2>7 DEF Release
  <2>8. ASSUME NEW result \in Results, Send(w, result) PROVE CountInv'
    BY <2>8 DEF Send
  <2>9. CASE HandOverFails(w)
    BY <2>9 DEF HandOverFails, Scheduled
  <2>10. CASE DatabaseFails(w)
    BY <2>10 DEF DatabaseFails
  <2>11. CASE WorkerDies(w)
    BY <2>11 DEF WorkerDies
  <2>12. CASE ReleaseFails(w)
    BY <2>12 DEF ReleaseFails
  <2> QED
    BY <1>3, <2>1, <2>2, <2>3, <2>4, <2>5, <2>6, <2>7, <2>8, <2>9, <2>10, <2>11, <2>12
       DEF WorkerStep
<1>4. CASE CountRows \/ SetDepth
  BY <1>4 DEF CountRows, SetDepth
<1>5. ASSUME NEW batch \in SUBSET Deliveries, SubmitFails(batch) PROVE CountInv'
  BY <1>5 DEF SubmitFails
<1> QED
  BY <1>1, <1>2, <1>3, <1>4, <1>5 DEF Next

\* Nothing is stored, queued or claimed at first.
LEMMA InvInit == Init => Inv
  BY DeliveriesAssumption, DepthAssumption
     DEF Init, Inv, BoundsInv, FreshInv, HolderInv, CountInv, Holding, Sending, Results, Idle, Id

\* The invariant holds in every state.
LEMMA InvAlways == Spec => [](RowsType /\ SyncType /\ Engaged /\ Inv)
<1>1. Init => RowsType /\ SyncType /\ Engaged /\ Inv
  <2>1. Init => Engaged
    BY DeliveriesAssumption DEF Init, Engaged, Idle
  <2> QED
    BY <2>1, TypeInit, TypeParts, InvInit
<1>2. RowsType /\ SyncType /\ Engaged /\ Inv /\ [Next]_vars => (RowsType /\ SyncType /\ Engaged /\ Inv)'
  BY RowsStep, SyncStep, BoundsStep, FreshStep, HolderStep, CountStep DEF Inv
<1> QED
  BY <1>1, <1>2, PTL DEF Spec

\* For any number of workers and of jobs of one delivery, _claim_delivery lets
\* one worker send it at a time, unless a worker resumed it without a claim.
THEOREM ClaimedByOne == Spec => []OneSender
<1>1. HolderInv => OneSender
  BY DEF HolderInv, OneSender, Holding
<1> QED
  BY <1>1, InvAlways, PTL DEF Inv

\* For any number of jobs, workers, hand-overs, requeues and failures,
\* DeliveryExecutor.execute calls the channel at most MAX_ATTEMPTS times, not
\* counting the calls whose record was lost, with the same exception.
THEOREM CallsAreBounded == Spec => []SendsBounded
<1>1. RowsType /\ Inv => SendsBounded
  <2> SUFFICES ASSUME RowsType, Inv, NEW d \in Deliveries \ resumed
               PROVE  sends[d] <= MaxAttempts
    BY DEF SendsBounded
  <2>1. sends[d] \in Int /\ attempts[d] \in Nat /\ MaxAttempts \in Nat /\ attempts[d] <= MaxAttempts
    BY DepthAssumption DEF RowsType, Inv, BoundsInv
  <2>2. CASE \E w \in Workers : Id(w) = d /\ worker[w].step \in Results
    <3>1. PICK w \in Workers : Id(w) = d /\ worker[w].step \in Results
      BY <2>2
    <3>2. worker[w].n \in Nat
      BY DEF RowsType, JobType
    <3>3. worker[w].n = attempts[d] /\ sends[d] <= attempts[d] + 1
      BY <3>1 DEF Inv, CountInv, Sending
    <3>4. worker[w].n < MaxAttempts
      BY <3>1 DEF Inv, BoundsInv, Sending
    <3> QED
      BY <2>1, <3>2, <3>3, <3>4
  <2>3. CASE \A w \in Workers : Id(w) = d => worker[w].step \notin Results
    BY <2>1, <2>3 DEF Inv, CountInv
  <2> QED
    BY <2>2, <2>3
<1> QED
  BY <1>1, InvAlways, PTL
-----------------------------------------------------------------------------
(* The counter and the slots.                                              *)

\* While nothing has drifted a delivery has one job at most, queued or run, and
\* none before its enqueue has returned.
OneJob ==
    \A d \in Deliveries :
        /\ submit[d] # "done" => queued[d] = {} /\ \A w \in Workers : Id(w) # d
        /\ \A a, b \in queued[d] : a = b
        /\ \A w \in Workers : Id(w) = d =>
               queued[d] = {} /\ \A v \in Workers : Id(v) = d => v = w

SlotsInv == ~drifted => OneJob /\ depth = Slots

\* What has drifted stays so.
LEMMA DriftStays == [Next]_vars /\ ~drifted' => ~drifted
<1> SUFFICES ASSUME [Next]_vars, ~drifted' PROVE ~drifted
  OBVIOUS
<1>1. CASE UNCHANGED vars
  BY <1>1, Zenon DEF vars, historyVars
<1>2. ASSUME NEW d \in Deliveries,
             Trigger(d) \/ SubmitStep(d) \/ TakeJob(d) \/ Requeue(d)
      PROVE  ~drifted
  BY <1>2, Zenon DEF SubmitStep, Trigger, CountSlot, Enqueue, UndoSlot, MarkFailed, TakeJob,
                     StartJob, Requeue, historyVars
<1>3. ASSUME NEW w \in Workers,
             \/ WorkerStep(w) \/ HandOverFails(w) \/ DatabaseFails(w)
             \/ ReleaseFails(w) \/ WorkerDies(w)
      PROVE  ~drifted
  BY <1>3, Zenon DEF WorkerStep, Claim, CheckLimits, Record, HandOver, Resume, Poison, Release,
                     Send, HandOverFails, DatabaseFails, ReleaseFails, WorkerDies, historyVars
<1>4. CASE CountRows \/ SetDepth
  BY <1>4, Zenon DEF CountRows, SetDepth, historyVars
<1>5. ASSUME NEW batch \in SUBSET Deliveries, SubmitFails(batch) PROVE ~drifted
  BY <1>5, Zenon DEF SubmitFails
<1> QED
  BY <1>1, <1>2, <1>3, <1>4, <1>5 DEF Next

\* The steps that leave nothing adrift, as what they do to the slots: no slot
\* changes hands (and the counter stays or is set to their number), or one is
\* taken, given back, or passed on to a job or a worker.
KeepSlots ==
    /\ UNCHANGED <<queued, Reserving>>
    /\ depth' \in {depth, Slots}
    /\ \A d \in Deliveries : submit[d] = "done" => submit'[d] = "done"
    /\ \A w \in Workers : worker'[w].id = worker[w].id

TakeSlot(d) ==
    /\ submit[d] = "stored" /\ submit' = [submit EXCEPT ![d] = "counted"]
    /\ Increment
    /\ UNCHANGED <<queued, worker>>

QueueSlot(d) ==
    /\ submit[d] = "counted" /\ submit' = [submit EXCEPT ![d] = "done"]
    /\ queued' = [queued EXCEPT ![d] = @ \union {0}]
    /\ UNCHANGED <<depth, worker>>

MissSlot(d) ==
    /\ submit[d] = "counted" /\ submit' = [submit EXCEPT ![d] = "undo"]
    /\ UNCHANGED <<queued, worker, depth>>

ReturnSlot(d) ==
    /\ submit[d] = "undo" /\ submit' = [submit EXCEPT ![d] = "mark"]
    /\ Decrement
    /\ UNCHANGED <<queued, worker>>

RunSlot(w, d, a) ==
    /\ At(w, "idle") /\ a \in queued[d]
    /\ queued' = [queued EXCEPT ![d] = @ \ {a}]
    /\ worker' = [worker EXCEPT ![w] = [step |-> "claim", id |-> d, n |-> a]]
    /\ UNCHANGED <<depth, submit>>

PassSlot(w) ==
    /\ ~At(w, "idle")
    /\ Scheduled(w)
    /\ Stop(w)
    /\ UNCHANGED <<depth, submit>>

EndSlot(w) ==
    /\ ~At(w, "idle")
    /\ Decrement
    /\ Stop(w)
    /\ UNCHANGED <<queued, submit>>

SlotStep ==
    \/ KeepSlots
    \/ \E d \in Deliveries : TakeSlot(d) \/ QueueSlot(d) \/ MissSlot(d) \/ ReturnSlot(d)
    \/ \E w \in Workers : PassSlot(w) \/ EndSlot(w) \/ \E d \in Deliveries, a \in Nat : RunSlot(w, d, a)

\* A step after which nothing has drifted is one of these.
LEMMA StepsAreSlotSteps ==
    ASSUME RowsType, Engaged, [Next]_vars, ~drifted' PROVE SlotStep
<1> USE DEF RowsType, Engaged, JobType, Id, At, rowVars, historyVars, Reserving
<1>1. CASE UNCHANGED vars
  BY <1>1 DEF vars, SlotStep, KeepSlots
<1>2. ASSUME NEW d \in Deliveries,
             Trigger(d) \/ SubmitStep(d) \/ TakeJob(d) \/ Requeue(d)
      PROVE  SlotStep
  <2>1. CASE Trigger(d)
    <3>1. KeepSlots
      BY <2>1 DEF Trigger, KeepSlots
    <3> QED
      BY <3>1 DEF SlotStep
  <2>2. CASE CountSlot(d)
    BY <2>2 DEF CountSlot, SlotStep, TakeSlot
  <2>3. CASE Enqueue(d)
    <3>1. QueueSlot(d) \/ MissSlot(d)
      BY <2>3, Zenon DEF Enqueue, QueueSlot, MissSlot
    <3> QED
      BY <3>1 DEF SlotStep
  <2>4. CASE UndoSlot(d)
    BY <2>4 DEF UndoSlot, SlotStep, ReturnSlot
  <2>5. CASE MarkFailed(d)
    <3>1. KeepSlots
      BY <2>5 DEF MarkFailed, KeepSlots
    <3> QED
      BY <3>1 DEF SlotStep
  <2>6. CASE Requeue(d)
    BY <2>6, Zenon DEF Requeue
  <2>7. CASE TakeJob(d)
    <3>1. PICK w \in Workers, a \in queued[d] : StartJob(w, d, a)
      BY <2>7 DEF TakeJob
    <3>2. a \in Nat /\ RunSlot(w, d, a)
      BY <3>1 DEF StartJob, RunSlot
    <3> QED
      BY <3>2 DEF SlotStep
  <2> QED
    BY <1>2, <2>1, <2>2, <2>3, <2>4, <2>5, <2>6, <2>7 DEF SubmitStep
<1>3. ASSUME NEW w \in Workers,
             \/ WorkerStep(w) \/ HandOverFails(w) \/ DatabaseFails(w)
             \/ ReleaseFails(w) \/ WorkerDies(w)
      PROVE  SlotStep
  <2>a. ASSUME NEW step, Goto(w, step) \/ GotoNext(w, step), UNCHANGED <<queued, depth, submit>>
        PROVE  SlotStep
    <3>1. KeepSlots
      BY <2>a DEF Goto, GotoNext, KeepSlots
    <3> QED
      BY <3>1 DEF SlotStep
  <2>1. CASE Claim(w)
    <3>1. CASE UNCHANGED depth /\ worker' = [worker EXCEPT
                  ![w].n = Max({worker[w].n, attempts[Id(w)]}),
                  ![w].step = IF Max({worker[w].n, attempts[Id(w)]}) < MaxAttempts THEN "check" ELSE "poison"]
      <4>1. KeepSlots
        BY <2>1, <3>1 DEF Claim, KeepSlots
      <4> QED
        BY <4>1 DEF SlotStep
    <3>2. CASE Decrement /\ Stop(w)
      <4>1. EndSlot(w)
        BY <2>1, <3>2 DEF Claim, EndSlot
      <4> QED
        BY <4>1 DEF SlotStep
    <3> QED
      BY <2>1, <3>1, <3>2, Zenon DEF Claim
  <2>2. CASE CheckLimits(w)
    BY <2>2, <2>a DEF CheckLimits
  <2>3. CASE Record(w)
    BY <2>3, <2>a DEF Record
  <2>4. CASE HandOver(w)
    <3>1. PassSlot(w)
      BY <2>4 DEF HandOver, PassSlot
    <3> QED
      BY <3>1 DEF SlotStep
  <2>5. CASE Resume(w) \/ Poison(w)
    BY <2>5, <2>a DEF Resume, Poison
  <2>6. CASE Release(w)
    <3>1. EndSlot(w)
      BY <2>6 DEF Release, EndSlot
    <3> QED
      BY <3>1 DEF SlotStep
  <2>7. CASE \E result \in Results : Send(w, result)
    BY <2>7, <2>a DEF Send
  <2>8. CASE HandOverFails(w)
    <3>1. UNCHANGED <<queued, depth, submit>>
      BY <2>8, Zenon DEF HandOverFails
    <3> QED
      BY <2>8, <3>1, <2>a DEF HandOverFails
  <2>9. CASE DatabaseFails(w)
    BY <2>9, <2>a DEF DatabaseFails
  <2>10. CASE WorkerDies(w)
    BY <2>10, Zenon DEF WorkerDies
  <2>11. CASE ReleaseFails(w)
    <3>1. Decrement /\ Stop(w) /\ UNCHANGED <<queued, submit>>
      BY <2>11, Zenon DEF ReleaseFails
    <3>2. worker[w].step # "idle"
      BY <2>11 DEF ReleaseFails
    <3>3. EndSlot(w)
      BY <3>1, <3>2 DEF EndSlot
    <3> QED
      BY <3>3 DEF SlotStep
  <2> QED
    BY <1>3, <2>1, <2>2, <2>3, <2>4, <2>5, <2>6, <2>7, <2>8, <2>9, <2>10, <2>11 DEF WorkerStep
<1>4. CASE CountRows
  <2>1. KeepSlots
    BY <1>4 DEF CountRows, KeepSlots
  <2> QED
    BY <2>1 DEF SlotStep
<1>5. CASE SetDepth
  <2>1. depth' = Slots /\ UNCHANGED <<queued, submit, worker>>
    BY <1>5, Zenon DEF SetDepth
  <2>2. KeepSlots
    BY <2>1 DEF KeepSlots
  <2> QED
    BY <2>2 DEF SlotStep
<1>6. ASSUME NEW batch \in SUBSET Deliveries, SubmitFails(batch) PROVE SlotStep
  <2>1. /\ batch \intersect Reserving = {} /\ UNCHANGED <<depth, queued, worker>>
        /\ submit' = [d \in Deliveries |-> IF d \in batch THEN "done" ELSE submit[d]]
    BY <1>6, Zenon DEF SubmitFails
  <2>2. KeepSlots
    BY <2>1 DEF KeepSlots
  <2> QED
    BY <2>2 DEF SlotStep
<1> QED
  BY <1>1, <1>2, <1>3, <1>4, <1>5, <1>6 DEF Next

\* The slots as finite sets.
LEMMA SlotsFinite ==
    ASSUME RowsType, BoundsInv
    PROVE  /\ IsFiniteSet(Reserving) /\ Cardinality(Reserving) \in Nat
           /\ IsFiniteSet(Jobs) /\ Cardinality(Jobs) \in Nat
           /\ IsFiniteSet(Busy) /\ Cardinality(Busy) \in Nat
<1>1. Reserving \in SUBSET Deliveries /\ Busy \in SUBSET Workers
  BY DEF Reserving, Busy
<1>2. IsFiniteSet(Deliveries \X (0 .. MaxAttempts))
  <2>1. IsFiniteSet(0 .. MaxAttempts)
    BY FS_Interval, DepthAssumption
  <2> QED
    BY <2>1, FS_Product, DeliveriesAssumption
<1>3. Jobs \in SUBSET (Deliveries \X (0 .. MaxAttempts))
  <2>1. \A d \in Deliveries : queued[d] \subseteq 0 .. MaxAttempts
    BY DepthAssumption DEF RowsType, BoundsInv
  <2> QED
    BY <2>1 DEF Jobs
<1> QED
  BY <1>1, <1>2, <1>3, FS_Subset, FS_CardinalityType, DeliveriesAssumption, WorkersAssumption

\* Enqueueing and starting a job change the set of jobs by one.
LEMMA JobsChange ==
    ASSUME RowsType, NEW d \in Deliveries, NEW a \in Nat
    PROVE  /\ <<d, a>> \in Jobs <=> a \in queued[d]
           /\ queued' = [queued EXCEPT ![d] = @ \union {a}] => Jobs' = Jobs \union {<<d, a>>}
           /\ queued' = [queued EXCEPT ![d] = @ \ {a}] => Jobs' = Jobs \ {<<d, a>>}
<1>1. \A j : j \in Jobs <=> \E e \in Deliveries : \E b \in queued[e] : j = <<e, b>>
  BY DEF Jobs
<1>2. \A j : j \in Jobs' <=> \E e \in Deliveries : \E b \in queued'[e] : j = <<e, b>>
  BY DEF Jobs
<1>3. ASSUME queued' = [queued EXCEPT ![d] = @ \union {a}] PROVE Jobs' = Jobs \union {<<d, a>>}
  <2>1. \A e \in Deliveries : queued'[e] = IF e = d THEN queued[e] \union {a} ELSE queued[e]
    BY <1>3 DEF RowsType
  <2>2. ASSUME NEW j \in Jobs' PROVE j \in Jobs \union {<<d, a>>}
    <3>0. PICK e \in Deliveries : \E b \in queued'[e] : j = <<e, b>>
      BY <1>2
    <3>1. PICK b \in queued'[e] : j = <<e, b>>
      BY <3>0
    <3>2. b \in queued[e] \/ (e = d /\ b = a)
      BY <2>1
    <3> QED
      BY <1>1, <3>1, <3>2
  <2>3. ASSUME NEW j \in Jobs PROVE j \in Jobs'
    <3>0. PICK e \in Deliveries : \E b \in queued[e] : j = <<e, b>>
      BY <1>1
    <3>1. PICK b \in queued[e] : j = <<e, b>>
      BY <3>0
    <3>2. b \in queued'[e]
      BY <2>1
    <3> QED
      BY <1>2, <3>1, <3>2
  <2>4. a \in queued'[d]
    BY <2>1
  <2>5. <<d, a>> \in Jobs'
    BY <1>2, <2>4, Zenon
  <2> QED
    BY <2>2, <2>3, <2>5
<1>4. ASSUME queued' = [queued EXCEPT ![d] = @ \ {a}] PROVE Jobs' = Jobs \ {<<d, a>>}
  <2>1. \A e \in Deliveries : queued'[e] = IF e = d THEN queued[e] \ {a} ELSE queued[e]
    BY <1>4 DEF RowsType
  <2>2. ASSUME NEW j \in Jobs' PROVE j \in Jobs \ {<<d, a>>}
    <3>0. PICK e \in Deliveries : \E b \in queued'[e] : j = <<e, b>>
      BY <1>2
    <3>1. PICK b \in queued'[e] : j = <<e, b>>
      BY <3>0
    <3>2. b \in queued[e] /\ (e # d \/ b # a)
      BY <2>1
    <3> QED
      BY <1>1, <3>1, <3>2
  <2>3. ASSUME NEW j \in Jobs, j # <<d, a>> PROVE j \in Jobs'
    <3>0. PICK e \in Deliveries : \E b \in queued[e] : j = <<e, b>>
      BY <1>1
    <3>1. PICK b \in queued[e] : j = <<e, b>>
      BY <3>0
    <3>2. b \in queued'[e]
      BY <2>1, <2>3, <3>1
    <3> QED
      BY <1>2, <3>1, <3>2
  <2> QED
    BY <2>2, <2>3
<1> QED
  BY <1>1, <1>3, <1>4

\* Such a step keeps one job per delivery.
LEMMA OneJobStep ==
    ASSUME RowsType, Engaged, OneJob, SlotStep PROVE OneJob'
<1> USE DeliveriesAssumption DEF RowsType, Engaged, JobType, OneJob, Id, At, Idle
<1>1. CASE KeepSlots
  BY <1>1 DEF KeepSlots
<1>2. ASSUME NEW d \in Deliveries, TakeSlot(d) \/ QueueSlot(d) \/ MissSlot(d) \/ ReturnSlot(d)
      PROVE  OneJob'
  BY <1>2 DEF TakeSlot, QueueSlot, MissSlot, ReturnSlot
<1>3. ASSUME NEW w \in Workers, PassSlot(w) PROVE OneJob'
  BY <1>3 DEF PassSlot, Scheduled, Stop
<1>4. ASSUME NEW w \in Workers, EndSlot(w) PROVE OneJob'
  BY <1>4 DEF EndSlot, Stop
<1>5. ASSUME NEW w \in Workers, NEW d \in Deliveries, NEW a \in Nat, RunSlot(w, d, a) PROVE OneJob'
  BY <1>5 DEF RunSlot
<1> QED
  BY <1>1, <1>2, <1>3, <1>4, <1>5 DEF SlotStep

\* Such a step changes the counter by as much as the slots.
LEMMA DepthStep ==
    ASSUME RowsType, Engaged, BoundsInv, OneJob, depth = Slots, SlotStep,
           RowsType', BoundsInv', Engaged'
    PROVE  depth' = Slots'
<1> DEFINE R == Cardinality(Reserving)
           J == Cardinality(Jobs)
           B == Cardinality(Busy)
<1>0. /\ IsFiniteSet(Reserving) /\ R \in Nat
      /\ IsFiniteSet(Jobs) /\ J \in Nat
      /\ IsFiniteSet(Busy) /\ B \in Nat
      /\ depth = R + J + B
  BY SlotsFinite DEF Slots
<1>a. UNCHANGED worker => Busy' = Busy
  BY DEF Busy, At
<1>b. UNCHANGED submit => Reserving' = Reserving
  BY DEF Reserving
<1>c. UNCHANGED queued => Jobs' = Jobs
  BY DEF Jobs
<1>d. ASSUME NEW w \in Workers, ~At(w, "idle"), Stop(w)
      PROVE  Cardinality(Busy') = B - 1 /\ B > 0
  <2>1. Busy' = Busy \ {w} /\ w \in Busy
    BY <1>d DEF Busy, Stop, At, RowsType, Idle
  <2>2. Cardinality(Busy \ {w}) = B - 1 /\ Cardinality(Busy \ {w}) \in Nat
    BY <1>0, <2>1, FS_RemoveElement, FS_CardinalityType
  <2> QED
    BY <1>0, <2>1, <2>2
<1>1. CASE KeepSlots
  <2>1. Busy' = Busy
    BY <1>1 DEF KeepSlots, Busy, At, Engaged
  <2> QED
    BY <1>1, <2>1, <1>c DEF KeepSlots, Slots
<1>2. ASSUME NEW d \in Deliveries, TakeSlot(d) PROVE depth' = Slots'
  <2>1. Reserving' = Reserving \union {d} /\ d \notin Reserving
    BY <1>2 DEF TakeSlot, Reserving, RowsType
  <2>2. Cardinality(Reserving') = R + 1
    BY <1>0, <2>1, FS_AddElement
  <2> QED
    BY <1>0, <1>2, <1>a, <1>c, <2>2 DEF TakeSlot, Increment, Slots
<1>3. ASSUME NEW d \in Deliveries, QueueSlot(d) PROVE depth' = Slots'
  <2>1. Reserving' = Reserving \ {d} /\ d \in Reserving
    BY <1>3 DEF QueueSlot, Reserving, RowsType
  <2>2. Cardinality(Reserving') = R - 1
    BY <1>0, <2>1, FS_RemoveElement
  <2>3. Jobs' = Jobs \union {<<d, 0>>} /\ <<d, 0>> \notin Jobs
    BY <1>3, JobsChange DEF QueueSlot, OneJob
  <2>4. Cardinality(Jobs') = J + 1
    BY <1>0, <2>3, FS_AddElement
  <2> QED
    BY <1>0, <1>3, <1>a, <2>2, <2>4 DEF QueueSlot, Slots
<1>4. ASSUME NEW d \in Deliveries, MissSlot(d) PROVE depth' = Slots'
  <2>1. Reserving' = Reserving
    BY <1>4 DEF MissSlot, Reserving, RowsType
  <2> QED
    BY <1>4, <1>a, <1>c, <2>1, Zenon DEF MissSlot, Slots
<1>5. ASSUME NEW d \in Deliveries, ReturnSlot(d) PROVE depth' = Slots'
  <2>1. Reserving' = Reserving \ {d} /\ d \in Reserving
    BY <1>5 DEF ReturnSlot, Reserving, RowsType
  <2>2. Cardinality(Reserving') = R - 1 /\ Cardinality(Reserving') \in Nat
    BY <1>0, <2>1, FS_RemoveElement, FS_CardinalityType
  <2>3. depth > 0
    BY <1>0, <2>2
  <2> QED
    BY <1>0, <1>5, <1>a, <1>c, <2>2, <2>3 DEF ReturnSlot, Decrement, Slots
<1>6. ASSUME NEW w \in Workers, PassSlot(w) PROVE depth' = Slots'
  <2>1. Id(w) \in Deliveries /\ worker[w].n \in Nat
    BY <1>6 DEF PassSlot, Engaged, At, Id, RowsType, JobType
  <2>2. Jobs' = Jobs \union {<<Id(w), worker[w].n>>} /\ <<Id(w), worker[w].n>> \notin Jobs
    BY <1>6, <2>1, JobsChange DEF PassSlot, Scheduled, OneJob
  <2>3. Cardinality(Jobs') = J + 1
    BY <1>0, <2>2, FS_AddElement
  <2> QED
    BY <1>0, <1>6, <1>b, <1>d, <2>3 DEF PassSlot, Slots
<1>7. ASSUME NEW w \in Workers, EndSlot(w) PROVE depth' = Slots'
  <2>1. Cardinality(Busy') = B - 1 /\ B > 0
    BY <1>7, <1>d DEF EndSlot
  <2>2. depth > 0
    BY <1>0, <2>1
  <2> QED
    BY <1>0, <1>7, <1>b, <1>c, <2>1, <2>2 DEF EndSlot, Decrement, Slots
<1>8. ASSUME NEW w \in Workers, NEW d \in Deliveries, NEW a \in Nat, RunSlot(w, d, a)
      PROVE  depth' = Slots'
  <2>1. Jobs' = Jobs \ {<<d, a>>} /\ <<d, a>> \in Jobs
    BY <1>8, JobsChange DEF RunSlot
  <2>2. Cardinality(Jobs') = J - 1
    BY <1>0, <2>1, FS_RemoveElement
  <2>3. Busy' = Busy \union {w} /\ w \notin Busy
    BY <1>8 DEF RunSlot, Busy, At, RowsType
  <2>4. Cardinality(Busy') = B + 1
    BY <1>0, <2>3, FS_AddElement
  <2> QED
    BY <1>0, <1>8, <1>b, <2>2, <2>4 DEF RunSlot, Slots
<1> QED
  BY <1>1, <1>2, <1>3, <1>4, <1>5, <1>6, <1>7, <1>8 DEF SlotStep

\* For any number of deliveries, workers and attempts, every path through
\* trigger_alert and DeliveryExecutor.execute gives its slot back exactly once,
\* and the clamp of decrement at zero is never reached, with the exceptions that
\* SlotsBalance names: a process that stops while it holds a slot, a Redis call
\* that raises, a requeue, and a counter set to other than the slots at a start.
THEOREM SlotsAreBalanced == Spec => []SlotsBalance
<1>1. Init => SlotsInv
  <2> SUFFICES ASSUME Init PROVE OneJob /\ depth = Slots
    BY DEF SlotsInv
  <2>1. OneJob
    BY DeliveriesAssumption DEF Init, OneJob, Id, Idle
  <2>2. Reserving = {} /\ Jobs = {} /\ Busy = {}
    BY DEF Init, Reserving, Jobs, Busy, At, Idle
  <2> QED
    BY <2>1, <2>2, FS_EmptySet DEF Init, Slots
<1>2. /\ RowsType /\ Engaged /\ Inv /\ SlotsInv /\ [Next]_vars
      /\ (RowsType /\ Engaged /\ Inv)'
      => SlotsInv'
  <2> SUFFICES ASSUME RowsType, Engaged, Inv, SlotsInv, [Next]_vars,
                      RowsType', Engaged', Inv', ~drifted'
               PROVE  OneJob' /\ depth' = Slots'
    BY DEF SlotsInv
  <2>1. OneJob /\ depth = Slots
    BY DriftStays DEF SlotsInv
  <2>2. SlotStep
    BY StepsAreSlotSteps
  <2> QED
    BY <2>1, <2>2, OneJobStep, DepthStep DEF Inv
<1>3. SlotsInv => SlotsBalance
  BY DEF SlotsInv, SlotsBalance
<1> QED
  BY <1>1, <1>2, <1>3, InvAlways, PTL DEF Spec
===============================================================================
