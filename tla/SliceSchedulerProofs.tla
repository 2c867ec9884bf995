------------------------- MODULE SliceSchedulerProofs -------------------------
(***************************************************************************)
(* What SliceScheduler promises, for every feasible order, any number of   *)
(* requests for it, of attempts, faults and restarts.                      *)
(***************************************************************************)
EXTENDS SliceScheduler, FiniteSetTheorems, TLAPS

-----------------------------------------------------------------------------
(* The plan.                                                               *)

\* num_slices is a positive integer.
LEMMA NumSlicesPositive == ASSUME NEW o \in Order PROVE NumSlices(o) \in Nat \ {0}
<1>1. /\ o.seconds \in Nat \ {0} /\ o.interval \in Nat \ {0}
      /\ o.qty \in Nat \ {0} /\ o.cap \in Nat \ {0}
  BY DEF Order
<1>2. \A a, b \in Nat \ {0} : CeilDiv(a, b) \in Int
  BY DEF CeilDiv
<1>3. CeilDiv(o.seconds, o.interval) \in Int /\ CeilDiv(o.qty, o.cap) \in Int
  BY <1>1, <1>2
<1> QED
  BY <1>3 DEF NumSlices, AtLeast

\* The bounds of integer division.
LEMMA DivBounds ==
    ASSUME NEW a \in Nat, NEW b \in Nat \ {0}
    PROVE  /\ a \div b \in Nat /\ a % b \in 0 .. b - 1
           /\ a = b * (a \div b) + (a % b)
           /\ b * (a \div b) <= a
  OBVIOUS

\* math.ceil rounds up, by less than one.
LEMMA CeilDivBounds ==
    ASSUME NEW a \in Nat \ {0}, NEW b \in Nat \ {0}
    PROVE  CeilDiv(a, b) \in Nat /\ a <= b * CeilDiv(a, b) /\ b * (CeilDiv(a, b) - 1) < a
<1> DEFINE m == a + b - 1
<1>1. m \in Nat
  OBVIOUS
<1>2. m \div b \in Nat /\ b * (m \div b) <= m /\ m < b * (m \div b) + b
  <2> HIDE DEF m
  <2>1. m \div b \in Nat /\ m % b \in 0 .. b - 1 /\ m = b * (m \div b) + (m % b)
    BY <1>1, DivBounds
  <2> QED
    BY <1>1, <2>1
<1>3. \A k \in Nat : b * k <= m /\ m < b * k + b => a <= b * k /\ b * (k - 1) < a
  OBVIOUS
<1>4. CeilDiv(a, b) = m \div b
  BY DEF CeilDiv
<1> HIDE DEF m
<1> QED
  BY <1>2, <1>3, <1>4

\* There are enough slices for the liquidity constraint, and with the
\* effective interval they fit the duration.
LEMMA NumSlicesBounds ==
    ASSUME NEW o \in Order
    PROVE  /\ o.qty <= o.cap * NumSlices(o)
           /\ (NumSlices(o) - 1) * Interval(o) <= o.seconds
<1> DEFINE i == CeilDiv(o.seconds, o.interval)
           c == CeilDiv(o.qty, o.cap)
           n == NumSlices(o)
<1>1. /\ o.seconds \in Nat \ {0} /\ o.interval \in Nat \ {0}
      /\ o.qty \in Nat \ {0} /\ o.cap \in Nat \ {0}
  BY DEF Order
<1>2. i \in Nat /\ o.interval * (i - 1) < o.seconds /\ c \in Nat /\ o.qty <= o.cap * c
  BY <1>1, CeilDivBounds
<1>3. n \in Nat \ {0}
  BY NumSlicesPositive
<1>4. /\ n >= c
      /\ n > AtLeast(1, i) \/ n = 1 \/ n = i
      /\ n > AtLeast(1, i) => n > 1
  BY <1>2 DEF NumSlices, AtLeast
<1>5. Interval(o) = IF n > AtLeast(1, i) THEN o.seconds \div (n - 1) ELSE o.interval
  BY DEF Interval
<1> HIDE DEF i, c, n
<1>6. o.qty <= o.cap * n
  <2>1. \A q, m, x, y \in Nat : q <= m * x /\ x <= y => q <= m * y
    OBVIOUS
  <2> QED
    BY <1>1, <1>2, <1>3, <1>4, <2>1
<1>7. (n - 1) * Interval(o) <= o.seconds
  <2>1. CASE n > AtLeast(1, i)
    <3>1. n - 1 \in Nat \ {0}
      BY <1>3, <1>4, <2>1
    <3>2. Interval(o) = o.seconds \div (n - 1)
      BY <1>5, <2>1
    <3> QED
      BY <1>1, <3>1, <3>2, DivBounds
  <2>2. CASE ~(n > AtLeast(1, i))
    <3>1. Interval(o) = o.interval /\ (n = 1 \/ n = i)
      BY <1>4, <1>5, <2>2
    <3>2. \A m \in Nat \ {0} : (1 - 1) * m = 0
      OBVIOUS
    <3>3. \A m, x \in Nat : (x - 1) * m = m * (x - 1)
      OBVIOUS
    <3>4. CASE n = 1
      BY <1>1, <3>1, <3>2, <3>4
    <3>5. CASE n = i
      BY <1>1, <1>2, <3>1, <3>3, <3>5
    <3> QED
      BY <3>1, <3>4, <3>5
  <2> QED
    BY <2>1, <2>2
<1> QED
  BY <1>6, <1>7 DEF n

\* The shares of a plan: the base of every slice, and one more for each slice
\* of the sample.
LEMMA SharesOfPlan ==
    ASSUME NEW n \in Nat, NEW base \in Nat, NEW extra \in SUBSET (0 .. n - 1), NEW q,
           q = [i \in 0 .. n - 1 |-> base + (IF i \in extra THEN 1 ELSE 0)]
    PROVE  Cardinality(PlanShares(q)) = n * base + Cardinality(extra)
<1> DEFINE A == (0 .. n - 1) \X (1 .. base)
           B == extra \X {base + 1}
<1>1. PlanShares(q) = A \union B
  <2>1. \A i \in 0 .. n - 1 : q[i] = base + (IF i \in extra THEN 1 ELSE 0)
    OBVIOUS
  <2>2. DOMAIN q = 0 .. n - 1
    OBVIOUS
  <2>3. ASSUME NEW x \in PlanShares(q) PROVE x \in A \union B
    <3>1. PICK i \in 0 .. n - 1 : x \in {i} \X (1 .. q[i])
      BY <2>2, <2>3 DEF PlanShares
    <3>2. PICK k \in 1 .. q[i] : x = <<i, k>>
      BY <3>1
    <3>3. k \in 1 .. base \/ (i \in extra /\ k = base + 1)
      BY <2>1, <3>2
    <3> QED
      BY <3>2, <3>3
  <2>4. ASSUME NEW i \in 0 .. n - 1, NEW k \in 1 .. q[i] PROVE <<i, k>> \in PlanShares(q)
    BY <2>2 DEF PlanShares
  <2>5. ASSUME NEW x \in A \union B PROVE x \in PlanShares(q)
    <3>1. CASE x \in A
      <4>1. PICK i \in 0 .. n - 1, k \in 1 .. base : x = <<i, k>>
        BY <3>1
      <4>2. k \in 1 .. q[i]
        BY <2>1
      <4> QED
        BY <2>4, <4>1, <4>2
    <3>2. CASE x \in B
      <4>1. \A y \in extra \X {base + 1} : y[1] \in extra /\ y[2] = base + 1 /\ y = <<y[1], y[2]>>
        OBVIOUS
      <4>2. PICK i, k : i \in extra /\ k = base + 1 /\ x = <<i, k>>
        BY <3>2, <4>1, Zenon
      <4>3. i \in 0 .. n - 1 /\ k \in 1 .. q[i]
        BY <2>1, <4>2
      <4> QED
        BY <2>4, <4>2, <4>3
    <3> QED
      BY <2>5, <3>1, <3>2
  <2> QED
    BY <2>3, <2>5
<1>2. IsFiniteSet(0 .. n - 1) /\ Cardinality(0 .. n - 1) = n
  BY FS_Interval
<1>3. IsFiniteSet(1 .. base) /\ Cardinality(1 .. base) = base
  BY FS_Interval
<1>4. IsFiniteSet(extra) /\ Cardinality(extra) \in Nat
  BY <1>2, FS_Subset, FS_CardinalityType
<1>5. IsFiniteSet({base + 1}) /\ Cardinality({base + 1}) = 1
  BY FS_Singleton
<1>6. IsFiniteSet(A) /\ Cardinality(A) = n * base
  <2>1. IsFiniteSet(A) /\ Cardinality(A) = Cardinality(0 .. n - 1) * Cardinality(1 .. base)
    BY <1>2, <1>3, FS_Product
  <2> QED
    BY <1>2, <1>3, <2>1, Zenon
<1>7. IsFiniteSet(B) /\ Cardinality(B) = Cardinality(extra)
  BY <1>4, <1>5, FS_Product
<1>8. A \intersect B = {}
  OBVIOUS
<1> HIDE DEF A, B
<1>9. Cardinality(A \union B) = Cardinality(A) + Cardinality(B) - Cardinality(A \intersect B)
  BY <1>6, <1>7, FS_Union
<1>10. n * base \in Nat /\ \A x, y \in Nat : x + y - 0 = x + y
  OBVIOUS
<1>11. Cardinality(A \union B) = n * base + Cardinality(extra) - 0
  BY <1>6, <1>7, <1>8, <1>9, FS_EmptySet, Zenon
<1> QED
  BY <1>1, <1>4, <1>10, <1>11, Zenon

-----------------------------------------------------------------------------
(* Type correctness.                                                       *)

\* No step changes the order, and so the set of its slices.
LEMMA SameOrder == [Next]_vars => order' = order /\ Slices' = Slices
<1> SUFFICES ASSUME [Next]_vars PROVE order' = order
  BY DEF Slices
<1>1. CASE UNCHANGED vars
  BY <1>1 DEF vars
<1>2. CASE \E r \in Requests : AcceptRequest(r) \/ RequestStep(r)
  BY <1>2 DEF AcceptRequest, RequestStep, StorePlan, SchedulePlan, CompensateRows, CompensateParent
<1>3. CASE \E s \in Slices : JobStep(s)
  BY <1>3 DEF JobStep, Fire, ReadRow, CheckHalts, Guard, Place, Rejected, Record
<1>4. CASE \E s \in Slices : Misfire(s) \/ CheckFails(s) \/ NotReached(s) \/ ReplyLost(s)
  BY <1>4 DEF Misfire, CheckFails, NotReached, ReplyLost
<1>5. CASE \E s \in Slices : RecoverSlice(s)
  BY <1>5 DEF RecoverSlice, Skip, Expire, Block, GiveUp, Reschedule
<1>6. CASE \/ CancelRows \/ RemoveJobs \/ CancelParent
           \/ \E h \in {"kill_switch", "breaker"} : SwitchHalt(h)
  BY <1>6 DEF CancelRows, RemoveJobs, CancelParent, SwitchHalt
<1>7. CASE Restart \/ Reconcile \/ ForceGate \/ BeginRecovery \/ EndRecovery \/ Cascade \/ FinishRecovery
  BY <1>7 DEF Restart, Reconcile, ForceGate, BeginRecovery, EndRecovery, Cascade, FinishRecovery
<1> QED
  BY <1>1, <1>2, <1>3, <1>4, <1>5, <1>6, <1>7 DEF Next

\* The parts of TypeOK: flags, recovery's record, and the rest.
FlagsType ==
    /\ gate \in BOOLEAN /\ cancelling \in BOOLEAN
    /\ dropped \in BOOLEAN /\ bypassed \in BOOLEAN

RecoveryType ==
    recovery \in [step : {"wait", "slices", "over"}, todo : SUBSET Slices, expired : BOOLEAN]

RowsType ==
    /\ parent \in ParentStatuses
    /\ status \in [Slices -> SliceStatuses]
    /\ locked \subseteq Slices
    /\ touched \subseteq Slices
    /\ stopped \subseteq Slices

JobsType ==
    /\ job \in [Slices -> JobSteps]
    /\ tries \in [Slices -> 0 .. MaxAttempts]
    /\ live \subseteq Slices
    /\ unheard \subseteq Slices
    /\ halt \subseteq {"kill_switch", "breaker"}
    /\ request \in [Requests -> RequestSteps]
    /\ faults \in 0 .. MaxFaults
    /\ crashes \in 0 .. MaxCrashes

\* TypeOK is its parts.
LEMMA SliceTypeParts ==
    TypeOK <=> order \in Orders /\ FlagsType /\ RecoveryType /\ RowsType /\ JobsType
  BY Zenon DEF TypeOK, FlagsType, RecoveryType, RowsType, JobsType

\* The flags keep their types.
LEMMA SliceFlagsStep == FlagsType /\ [Next]_vars => FlagsType'
<1> SUFFICES ASSUME FlagsType, [Next]_vars PROVE FlagsType'
  OBVIOUS
<1> USE DEF FlagsType, rowVars, jobVars, callVars, budgetVars, historyVars, ghostVars
<1>1. CASE UNCHANGED vars
  BY <1>1, Zenon DEF vars
<1>2. CASE \E r \in Requests : AcceptRequest(r) \/ RequestStep(r)
  BY <1>2, Zenon DEF AcceptRequest, RequestStep, StorePlan, SchedulePlan, CompensateRows, CompensateParent
<1>3. CASE \E s \in Slices : JobStep(s)
  BY <1>3, Zenon DEF JobStep, Fire, ReadRow, CheckHalts, Guard, Place, Rejected, Record
<1>4. CASE \E s \in Slices : Misfire(s) \/ CheckFails(s) \/ NotReached(s) \/ ReplyLost(s)
  BY <1>4, Zenon DEF Misfire, CheckFails, NotReached, ReplyLost
<1>5. CASE \E s \in Slices : RecoverSlice(s)
  BY <1>5, Zenon DEF RecoverSlice, Skip, Expire, Block, GiveUp, Reschedule
<1>6. CASE \/ CancelRows \/ RemoveJobs \/ CancelParent
           \/ \E h \in {"kill_switch", "breaker"} : SwitchHalt(h)
  BY <1>6, Zenon DEF CancelRows, CancelPending, RemoveJobs, CancelParent, SwitchHalt
<1>7. CASE Restart \/ Reconcile \/ ForceGate
  BY <1>7, Zenon DEF Restart, Reconcile, ForceGate
<1>8. CASE BeginRecovery \/ EndRecovery \/ Cascade \/ FinishRecovery
  BY <1>8, Zenon DEF BeginRecovery, EndRecovery, Cascade, CancelPending, FinishRecovery
<1> QED
  BY <1>1, <1>2, <1>3, <1>4, <1>5, <1>6, <1>7, <1>8 DEF Next

\* Recovery's record changes with the process's start and by its own steps.
LEMMA RecoveryStep == RecoveryType /\ [Next]_vars => RecoveryType'
<1> SUFFICES ASSUME RecoveryType, [Next]_vars PROVE RecoveryType'
  OBVIOUS
<1>a. Slices' = Slices
  BY SameOrder
<1> USE <1>a DEF RecoveryType
<1>1. CASE UNCHANGED recovery
  BY <1>1
<1>2. ASSUME NEW s \in Slices, Handled(s) PROVE RecoveryType'
  BY <1>2 DEF Handled
<1>3. ASSUME NEW s \in Slices, Expire(s) PROVE RecoveryType'
  BY <1>3 DEF Expire
<1>4. ASSUME NEW t \in SUBSET Slices, NEW p \in {"wait", "slices", "over"},
             recovery' = [step |-> p, todo |-> t, expired |-> FALSE]
      PROVE  RecoveryType'
  BY <1>4
<1>5. CASE Restart \/ EndRecovery \/ Cascade \/ FinishRecovery
  <2>1. \E p \in {"wait", "over"} : recovery' = [step |-> p, todo |-> {}, expired |-> FALSE]
    BY <1>5 DEF Restart, EndRecovery, Cascade, FinishRecovery, Idle
  <2> QED
    BY <1>4, <2>1
<1>6. CASE BeginRecovery
  <2>1. recovery' = [step |-> "slices", todo |-> {s \in Slices : status[s] = "pending_new"},
                     expired |-> FALSE]
    BY <1>6 DEF BeginRecovery, Idle
  <2> QED
    BY <1>4, <2>1
<1>7. CASE \E r \in Requests : AcceptRequest(r) \/ RequestStep(r)
  BY <1>1, <1>7 DEF AcceptRequest, RequestStep, StorePlan, SchedulePlan, CompensateRows, CompensateParent
<1>8. CASE \E s \in Slices : JobStep(s) \/ Misfire(s) \/ CheckFails(s) \/ NotReached(s) \/ ReplyLost(s)
  BY <1>1, <1>8 DEF JobStep, Fire, ReadRow, CheckHalts, Guard, Place, Rejected, Record, Misfire,
                    CheckFails, NotReached, ReplyLost, callVars
<1>9. CASE \E s \in Slices : RecoverSlice(s)
  BY <1>2, <1>3, <1>9 DEF RecoverSlice, Skip, Block, GiveUp, Reschedule
<1>10. CASE \/ CancelRows \/ RemoveJobs \/ CancelParent
            \/ \E h \in {"kill_switch", "breaker"} : SwitchHalt(h)
  BY <1>1, <1>10 DEF CancelRows, RemoveJobs, CancelParent, SwitchHalt, callVars
<1>11. CASE Reconcile \/ ForceGate \/ UNCHANGED vars
  BY <1>1, <1>11 DEF Reconcile, ForceGate, vars, callVars
<1> QED
  BY <1>5, <1>6, <1>7, <1>8, <1>9, <1>10, <1>11 DEF Next

\* update_order_status_cas writes a status to the row and nothing else.
LEMMA CasTypes ==
    ASSUME RowsType, NEW s \in Slices, NEW new \in SliceStatuses, Cas(s, new)
    PROVE  /\ status' \in [Slices -> SliceStatuses]
           /\ locked' \subseteq Slices
           /\ touched' \subseteq Slices
  BY DEF RowsType, Cas

\* cancel_pending_slices too.
LEMMA CancelPendingTypes ==
    ASSUME RowsType, CancelPending
    PROVE  /\ status' \in [Slices -> SliceStatuses]
           /\ locked' \subseteq Slices
           /\ touched' \subseteq Slices
           /\ stopped' \subseteq Slices
  BY DEF RowsType, CancelPending, Stoppable, SliceStatuses, TerminalStatuses

\* A step preserves the types of the rows.
LEMMA RowsTypeStep == RowsType /\ [Next]_vars => RowsType'
<1> SUFFICES ASSUME RowsType, [Next]_vars PROVE RowsType'
  OBVIOUS
<1>a. Slices' = Slices
  BY SameOrder
<1> USE <1>a DEF rowVars, historyVars, ghostVars
<1>b. {"failed", "rejected", "expired", "blocked_kill_switch", "blocked_circuit_breaker",
       "submitted", "submitted_unconfirmed"} \subseteq SliceStatuses
  BY DEF SliceStatuses, TerminalStatuses
<1>1. CASE UNCHANGED <<rowVars, stopped>>
  BY <1>1 DEF RowsType
<1>2. ASSUME NEW r \in Requests, AcceptRequest(r) \/ RequestStep(r) PROVE RowsType'
  <2>1. CASE StorePlan(r)
    BY <2>1 DEF RowsType, StorePlan, ParentStatuses, SliceStatuses
  <2>2. CASE CompensateRows(r)
    BY <2>2, CancelPendingTypes DEF RowsType, CompensateRows
  <2>3. CASE CompensateParent(r)
    BY <2>3 DEF RowsType, CompensateParent, ParentStatuses
  <2> QED
    BY <1>1, <1>2, <2>1, <2>2, <2>3 DEF RequestStep, AcceptRequest, SchedulePlan
<1>3. CASE CancelRows
  BY <1>3, CancelPendingTypes DEF RowsType, CancelRows
<1>4. CASE CancelParent
  BY <1>4 DEF RowsType, CancelParent, ParentStatuses
<1>5. ASSUME NEW s \in Slices, NEW new \in SliceStatuses,
             Cas(s, new) \/ UNCHANGED <<status, locked, touched>>, parent' = parent, stopped' = stopped
      PROVE  RowsType'
  BY <1>5, CasTypes DEF RowsType
<1>6. ASSUME NEW s \in Slices,
             JobStep(s) \/ Misfire(s) \/ CheckFails(s) \/ NotReached(s) \/ ReplyLost(s)
      PROVE  RowsType'
  <2>1. /\ parent' = parent /\ stopped' = stopped
        /\ \E new \in SliceStatuses : Cas(s, new) \/ UNCHANGED <<status, locked, touched>>
    BY <1>6, <1>b DEF JobStep, Fire, ReadRow, CheckHalts, Guard, Place, Rejected, Record, Misfire,
                CheckFails, NotReached, ReplyLost, RetryOrFail
  <2> QED
    BY <1>5, <2>1
<1>7. ASSUME NEW s \in Slices, RecoverSlice(s) PROVE RowsType'
  <2>1. /\ parent' = parent /\ stopped' = stopped
        /\ \E new \in SliceStatuses : Cas(s, new) \/ UNCHANGED <<status, locked, touched>>
    BY <1>7, <1>b DEF RecoverSlice, Skip, Expire, Block, GiveUp, Reschedule, RecoveryCas
  <2> QED
    BY <1>5, <2>1
<1>8. CASE Reconcile
  BY <1>8 DEF RowsType, Reconcile, SliceStatuses
<1>9. CASE BeginRecovery
  BY <1>9 DEF RowsType, BeginRecovery
<1>10. CASE Cascade
  BY <1>10, CancelPendingTypes DEF RowsType, Cascade
<1>11. CASE FinishRecovery
  BY <1>11 DEF RowsType, FinishRecovery, ParentStatuses
<1>12. CASE \/ RemoveJobs \/ Restart \/ ForceGate \/ EndRecovery \/ UNCHANGED vars
            \/ \E h \in {"kill_switch", "breaker"} : SwitchHalt(h)
  BY <1>1, <1>12 DEF RemoveJobs, Restart, ForceGate, EndRecovery, SwitchHalt, vars
<1> QED
  BY <1>2, <1>3, <1>4, <1>6, <1>7, <1>8, <1>9, <1>10, <1>11, <1>12 DEF Next

\* A step preserves the types of the jobs, the requests and the counters.
LEMMA JobsTypeStep == JobsType /\ [Next]_vars => JobsType'
<1> SUFFICES ASSUME JobsType, [Next]_vars PROVE JobsType'
  OBVIOUS
<1>a. Slices' = Slices
  BY SameOrder
<1> USE <1>a, BoundsAssumption DEF jobVars, callVars, budgetVars, historyVars, ghostVars, Fault, NoFault
<1>1. CASE UNCHANGED vars
  BY <1>1 DEF JobsType, vars
<1>2. ASSUME NEW r \in Requests, AcceptRequest(r) \/ RequestStep(r) PROVE JobsType'
  <2> USE DEF Answer
  <2>1. CASE AcceptRequest(r)
    BY <2>1 DEF JobsType, AcceptRequest, RequestSteps
  <2>2. CASE StorePlan(r)
    BY <2>2 DEF JobsType, StorePlan, RequestSteps
  <2>3. CASE SchedulePlan(r)
    BY <2>3 DEF JobsType, SchedulePlan, RequestSteps, JobSteps
  <2>4. CASE CompensateRows(r)
    BY <2>4 DEF JobsType, CompensateRows, RequestSteps
  <2>5. CASE CompensateParent(r)
    BY <2>5 DEF JobsType, CompensateParent, RequestSteps
  <2> QED
    BY <1>2, <2>1, <2>2, <2>3, <2>4, <2>5 DEF RequestStep
<1>3. CASE CancelRows \/ CancelParent
  <2>1. Fault /\ UNCHANGED <<jobVars, halt, request, crashes, unheard>>
    BY <1>3, Zenon DEF CancelRows, CancelParent
  <2> QED
    BY <2>1 DEF JobsType
<1>4. CASE RemoveJobs
  BY <1>4 DEF JobsType, RemoveJobs, JobSteps
<1>5. CASE \E h \in {"kill_switch", "breaker"} : SwitchHalt(h)
  BY <1>5 DEF JobsType, SwitchHalt
<1>6. ASSUME NEW s \in Slices, JobStep(s) \/ Misfire(s) \/ CheckFails(s) PROVE JobsType'
  <2> USE DEF JobsType, Goto, JobSteps
  <2>1. CASE Fire(s)
    BY <2>1 DEF Fire
  <2>2. CASE ReadRow(s) \/ Guard(s) \/ CheckHalts(s) \/ Rejected(s)
    BY <2>2 DEF ReadRow, Guard, CheckHalts, Rejected
  <2>3. CASE Place(s)
    BY <2>3 DEF Place
  <2>4. CASE Record(s) \/ Misfire(s) \/ CheckFails(s)
    <3>1. /\ Fault \/ NoFault
          /\ Goto(s, "none")
          /\ UNCHANGED <<tries, live, halt, request, crashes, unheard>>
      BY <2>4, Zenon DEF Record, Misfire, CheckFails
    <3> QED
      BY <3>1
  <2> QED
    BY <1>6, <2>1, <2>2, <2>3, <2>4 DEF JobStep
<1>7. ASSUME NEW s \in Slices, RetryOrFail(s) \/ (Goto(s, "none") /\ UNCHANGED tries)
      PROVE  job' \in [Slices -> JobSteps] /\ tries' \in [Slices -> 0 .. MaxAttempts]
  BY <1>7 DEF JobsType, RetryOrFail, Goto, JobSteps
<1>8. ASSUME NEW s \in Slices, NotReached(s) PROVE JobsType'
  BY <1>7, <1>8 DEF JobsType, NotReached
<1>9. ASSUME NEW s \in Slices, ReplyLost(s) PROVE JobsType'
  BY <1>7, <1>9 DEF JobsType, ReplyLost
<1>10. ASSUME NEW s \in Slices, RecoverSlice(s) PROVE JobsType'
  BY <1>10 DEF JobsType, RecoverSlice, Skip, Expire, Block, GiveUp, Reschedule, JobSteps
<1>11. CASE Restart
  BY <1>11 DEF JobsType, Restart, JobSteps, RequestSteps
<1>12. CASE Reconcile \/ ForceGate \/ BeginRecovery \/ EndRecovery \/ Cascade \/ FinishRecovery
  BY <1>12 DEF JobsType, Reconcile, ForceGate, BeginRecovery, EndRecovery, Cascade, FinishRecovery
<1> QED
  BY <1>1, <1>2, <1>3, <1>4, <1>5, <1>6, <1>8, <1>9, <1>10, <1>11, <1>12 DEF Next

\* A step preserves the types.
LEMMA SliceTypeStep == TypeOK /\ [Next]_vars => TypeOK'
<1> SUFFICES ASSUME TypeOK, [Next]_vars PROVE TypeOK'
  OBVIOUS
<1>1. FlagsType' /\ RecoveryType' /\ RowsType' /\ JobsType'
  BY SliceTypeParts, SliceFlagsStep, RecoveryStep, RowsTypeStep, JobsTypeStep
<1>2. (order \in Orders)'
  BY SliceTypeParts, SameOrder
<1>3. (order \in Orders /\ FlagsType /\ RecoveryType /\ RowsType /\ JobsType) => TypeOK
  BY SliceTypeParts
<1> QED
  BY <1>1, <1>2, SliceTypeParts, PTL

\* The plan, its rows, the jobs and recovery are always well typed.
THEOREM SlicesTypeCorrect == Spec => []TypeOK
<1>1. ASSUME Init PROVE TypeOK
  <2>1. FlagsType
    BY <1>1, Zenon DEF Init, FlagsType
  <2>2. RecoveryType
    BY <1>1 DEF Init, RecoveryType, Idle
  <2>3. RowsType
    BY <1>1, StartsAssumption DEF Init, RowsType, ParentStatuses, SliceStatuses
  <2>4. JobsType
    BY <1>1, BoundsAssumption DEF Init, JobsType, JobSteps, RequestSteps
  <2> QED
    BY <1>1, <2>1, <2>2, <2>3, <2>4, SliceTypeParts DEF Init
<1> QED
  BY <1>1, SliceTypeStep, PTL DEF Spec

-----------------------------------------------------------------------------
(* What a step does to the rows, the jobs and recovery.                    *)

Planning == {"schedule", "compensate", "settle"}

\* The statuses that set is_terminal.
Ended == TerminalStatuses \ {"canceled"}

\* Unless it is forced, the gate opens by reconciliation only.
GateKept == ~bypassed' => ~bypassed /\ (gate' => gate)

RecoverySet(step, todo) == recovery'.step = step /\ recovery'.todo = todo

\* Halts, the forced gate.
PassStep == UNCHANGED <<parent, status, locked, job, live, unheard, stopped, request, recovery>>

\* A request that does not schedule.
AnswerStep(r) ==
    /\ \E x \in {"store", "done"} : request' = [request EXCEPT ![r] = x]
    /\ UNCHANGED <<parent, status, locked, job, live, unheard, stopped, recovery>>

StoreStep(r) ==
    /\ parent = "none" /\ parent' = "pending_new"
    /\ status' = [s \in Slices |-> "pending_new"]
    /\ request' = [request EXCEPT ![r] = "schedule"]
    /\ UNCHANGED <<locked, job, live, unheard, stopped, recovery>>

ScheduleStep(r) ==
    /\ request[r] = "schedule"
    /\ \E x \in {"compensate", "done"} : request' = [request EXCEPT ![r] = x]
    /\ \E n \in Nat : job' = [s \in Slices |-> IF s < n THEN "waiting" ELSE job[s]]
    /\ UNCHANGED <<parent, status, locked, live, unheard, stopped, recovery>>

\* cancel_pending_slices, by compensation, by cancel_remaining_slices or by
\* recovery.
CancelStep ==
    /\ CancelPending
    /\ \/ UNCHANGED request
       \/ \E r \in Requests : request[r] = "compensate" /\ request' = [request EXCEPT ![r] = "settle"]
    /\ UNCHANGED recovery \/ RecoverySet("over", {})
    /\ UNCHANGED <<parent, job, live, unheard>>

\* The parent is canceled or expired.
ParentStep ==
    /\ parent' \in {"canceled", "expired"}
    /\ parent' = "expired" => locked = Slices
    /\ UNCHANGED request \/ \E r \in Requests : request' = [request EXCEPT ![r] = "done"]
    /\ UNCHANGED <<status, locked, job, live, unheard, stopped>>

RemoveStep ==
    /\ job' = [s \in Slices |-> IF job[s] = "waiting" THEN "none" ELSE job[s]]
    /\ UNCHANGED <<parent, status, locked, live, unheard, stopped, request, recovery>>

\* A job goes on or is dropped.
MoveStep(s) ==
    /\ job[s] # "none"
    /\ \E x \in {"none", "read", "halts", "guard", "submit"} :
        /\ x = "submit" => status[s] # "canceled"
        /\ job[s] = "record" => x = "none"
        /\ job' = [job EXCEPT ![s] = x]
    /\ UNCHANGED <<parent, status, locked, live, unheard, stopped, request, recovery>>

\* A job ends its slice without submitting it.
GiveUpStep(s) ==
    /\ job[s] \notin {"none", "record"}
    /\ job' = [job EXCEPT ![s] = "none"]
    /\ \E new \in Ended : Cas(s, new)
    /\ UNCHANGED <<parent, live, unheard, stopped, request, recovery>>

PlaceStep(s) ==
    /\ job[s] = "submit"
    /\ s \notin live
    /\ job' = [job EXCEPT ![s] = "record"]
    /\ live' = live \union {s}
    /\ UNCHANGED <<parent, status, locked, unheard, stopped, request, recovery>>

RecordStep(s) ==
    /\ job[s] = "record"
    /\ job' = [job EXCEPT ![s] = "none"]
    /\ \E new \in {"submitted", "submitted_unconfirmed"} : Cas(s, new)
    /\ UNCHANGED <<parent, live, unheard, stopped, request, recovery>>

\* The broker has the slice and its job does not know.
LostStep(s) ==
    /\ job[s] = "submit"
    /\ live' = live \union {s}
    /\ unheard' = unheard \union {s}
    /\ \/ job' = [job EXCEPT ![s] = "read"] /\ UNCHANGED <<status, locked>>
       \/ job' = [job EXCEPT ![s] = "none"] /\ \E new \in Ended : Cas(s, new)
    /\ UNCHANGED <<parent, stopped, request, recovery>>

BeginStep ==
    /\ recovery.step = "wait" /\ gate
    /\ RecoverySet("slices", {s \in Slices : status[s] = "pending_new"})
    /\ UNCHANGED <<parent, status, locked, job, live, unheard, stopped, request>>

OverStep ==
    /\ RecoverySet("over", {})
    /\ UNCHANGED <<parent, status, locked, job, live, unheard, stopped, request>>

\* Recovery takes a slice from its list, and skips it, ends it or gives it a
\* job.
TodoStep(s) ==
    /\ recovery.step = "slices" /\ s \in recovery.todo
    /\ RecoverySet(recovery.step, recovery.todo \ {s})
    /\ \/ UNCHANGED <<status, locked, job>>
       \/ parent = "accepted" /\ (\E new \in Ended : Cas(s, new)) /\ UNCHANGED job
       \/ parent = "accepted" /\ job' = [job EXCEPT ![s] = "waiting"] /\ UNCHANGED <<status, locked>>
    /\ UNCHANGED <<parent, live, unheard, stopped, request>>

RestartStep ==
    /\ job' = [s \in Slices |-> "none"]
    /\ request' = [r \in Requests |-> IF request[r] = "new" THEN "new" ELSE "done"]
    /\ RecoverySet("wait", {})
    /\ ~gate'
    /\ UNCHANGED <<parent, status, locked, live, unheard, stopped>>

ReconcileStep ==
    /\ status' = [s \in Slices |->
                    IF s \in live \ locked /\ status[s] \in {"pending_new", "canceled"}
                    THEN "accepted" ELSE status[s]]
    /\ UNCHANGED <<parent, locked, job, live, unheard, stopped, request, recovery>>

RequestMove(r) == AnswerStep(r) \/ StoreStep(r) \/ ScheduleStep(r)

JobMove(s) ==
    \/ MoveStep(s) \/ GiveUpStep(s) \/ PlaceStep(s) \/ RecordStep(s) \/ LostStep(s)

SliceStep ==
    \/ PassStep \/ CancelStep \/ ParentStep \/ RemoveStep \/ BeginStep \/ OverStep \/ RestartStep
    \/ \E r \in Requests : RequestMove(r)
    \/ \E s \in Slices : JobMove(s) \/ TodoStep(s)

\* The gate and the history of its being forced, in every step but a
\* reconciliation.
LEMMA GateStep == [Next]_vars => Reconcile \/ GateKept
<1> SUFFICES ASSUME [Next]_vars, ~Reconcile PROVE GateKept
  OBVIOUS
<1> USE DEF GateKept, historyVars, ghostVars
<1>1. CASE UNCHANGED vars
  BY <1>1, Zenon DEF vars
<1>2. CASE \E r \in Requests : AcceptRequest(r) \/ RequestStep(r)
  BY <1>2, Zenon DEF AcceptRequest, RequestStep, StorePlan, SchedulePlan, CompensateRows, CompensateParent
<1>3. CASE \E s \in Slices : JobStep(s)
  BY <1>3, Zenon DEF JobStep, Fire, ReadRow, CheckHalts, Guard, Place, Rejected, Record
<1>4. CASE \E s \in Slices : Misfire(s) \/ CheckFails(s) \/ NotReached(s) \/ ReplyLost(s)
  BY <1>4, Zenon DEF Misfire, CheckFails, NotReached, ReplyLost
<1>5. CASE \E s \in Slices : RecoverSlice(s)
  BY <1>5, Zenon DEF RecoverSlice, Skip, Expire, Block, GiveUp, Reschedule
<1>6. CASE \/ CancelRows \/ RemoveJobs \/ CancelParent
           \/ \E h \in {"kill_switch", "breaker"} : SwitchHalt(h)
  BY <1>6, Zenon DEF CancelRows, RemoveJobs, CancelParent, SwitchHalt
<1>7. CASE Restart \/ ForceGate
  BY <1>7, Zenon DEF Restart, ForceGate
<1>8. CASE BeginRecovery \/ EndRecovery \/ Cascade \/ FinishRecovery
  BY <1>8, Zenon DEF BeginRecovery, EndRecovery, Cascade, FinishRecovery
<1> QED
  BY <1>1, <1>2, <1>3, <1>4, <1>5, <1>6, <1>7, <1>8 DEF Next

\* The steps of a request.
LEMMA RequestsAreSliceSteps ==
    ASSUME NEW r \in Requests, AcceptRequest(r) \/ RequestStep(r) PROVE SliceStep
<1> USE DEF SliceStep, RequestMove, rowVars, jobVars, historyVars, ghostVars, Answer
<1>1. CASE AcceptRequest(r)
  BY <1>1 DEF AcceptRequest, AnswerStep
<1>2. CASE StorePlan(r)
  BY <1>2 DEF StorePlan, AnswerStep, StoreStep
<1>3. CASE SchedulePlan(r)
  <2>1. PICK n \in 0 .. NumSlices(order) :
            job' = [s \in Slices |-> IF s < n THEN "waiting" ELSE job[s]]
    BY <1>3 DEF SchedulePlan
  <2>2. n \in Nat
    BY <2>1
  <2> QED
    BY <1>3, <2>1, <2>2 DEF SchedulePlan, ScheduleStep
<1>4. CASE CompensateRows(r)
  <2>1. CASE CancelPending /\ Answer(r, "settle")
    BY <1>4, <2>1, Zenon DEF CompensateRows, CancelStep
  <2>2. CASE Answer(r, "done") /\ UNCHANGED <<status, locked, stopped>>
    BY <1>4, <2>2, Zenon DEF CompensateRows, AnswerStep
  <2> QED
    BY <1>4, <2>1, <2>2, Zenon DEF CompensateRows
<1>5. CASE CompensateParent(r)
  BY <1>5 DEF CompensateParent, AnswerStep, ParentStep
<1> QED
  BY <1>1, <1>2, <1>3, <1>4, <1>5 DEF RequestStep

\* The steps of a job.
LEMMA JobsAreSliceSteps ==
    ASSUME NEW s \in Slices,
           JobStep(s) \/ Misfire(s) \/ CheckFails(s) \/ NotReached(s) \/ ReplyLost(s)
    PROVE  SliceStep
<1> SUFFICES JobMove(s)
  BY DEF SliceStep
<1> USE DEF JobMove, rowVars, callVars, historyVars, ghostVars, Goto
<1>a. {"failed", "rejected", "blocked_kill_switch", "blocked_circuit_breaker"} \subseteq Ended
  BY DEF Ended, TerminalStatuses
<1>1. CASE Fire(s) \/ ReadRow(s) \/ Guard(s)
  BY <1>1 DEF Fire, ReadRow, Guard, MoveStep
<1>2. CASE Misfire(s)
  <2>1. /\ job[s] = "waiting" /\ Goto(s, "none")
        /\ UNCHANGED <<parent, status, locked, live, unheard, stopped, request, recovery>>
    BY <1>2, Zenon DEF Misfire
  <2> QED
    BY <2>1 DEF MoveStep
<1>3. CASE CheckHalts(s)
  BY <1>3, <1>a DEF CheckHalts, MoveStep, GiveUpStep
<1>4. CASE Place(s)
  BY <1>4 DEF Place, PlaceStep
<1>5. CASE Rejected(s)
  BY <1>5, <1>a DEF Rejected, GiveUpStep
<1>6. CASE Record(s)
  BY <1>6 DEF Record, RecordStep, MoveStep
<1>7. CASE CheckFails(s)
  <2>1. /\ job[s] \in {"read", "halts", "guard"} /\ Goto(s, "none")
        /\ Cas(s, "failed") \/ UNCHANGED <<status, locked>>
        /\ UNCHANGED <<parent, live, unheard, stopped, request, recovery>>
    BY <1>7, Zenon DEF CheckFails
  <2> QED
    BY <2>1, <1>a DEF MoveStep, GiveUpStep
<1>8. CASE NotReached(s)
  BY <1>8, <1>a DEF NotReached, RetryOrFail, MoveStep, GiveUpStep
<1>9. CASE ReplyLost(s)
  BY <1>9, <1>a DEF ReplyLost, RetryOrFail, LostStep
<1> QED
  BY <1>1, <1>2, <1>3, <1>4, <1>5, <1>6, <1>7, <1>8, <1>9 DEF JobStep

\* The steps of recovery.
LEMMA RecoveryIsSliceSteps ==
    ASSUME TypeOK, NEW s \in Slices, RecoverSlice(s) PROVE SliceStep
<1> SUFFICES TodoStep(s)
  BY DEF SliceStep
<1> USE DEF rowVars, jobVars, historyVars, ghostVars
<1>a. {"expired", "failed", "blocked_circuit_breaker"} \subseteq Ended
  BY DEF Ended, TerminalStatuses
<1>b. recovery \in [step : {"wait", "slices", "over"}, todo : SUBSET Slices, expired : BOOLEAN]
  BY Zenon DEF TypeOK
<1>c. Handled(s) \/ Expire(s) => RecoverySet(recovery.step, recovery.todo \ {s})
  BY <1>b DEF Handled, Expire, RecoverySet
<1>1. CASE Skip(s)
  BY <1>1, <1>c DEF Skip, TodoStep
<1>2. CASE Expire(s)
  <2>1. /\ recovery.step = "slices" /\ s \in recovery.todo
        /\ parent = "accepted" /\ RecoveryCas(s, "expired")
        /\ UNCHANGED <<parent, job, live, unheard, stopped, request>>
    BY <1>2, Zenon DEF Expire
  <2> QED
    BY <1>2, <2>1, <1>a, <1>c DEF RecoveryCas, TodoStep
<1>3. CASE Block(s)
  BY <1>3, <1>a, <1>c DEF Block, RecoveryCas, TodoStep
<1>4. CASE GiveUp(s)
  BY <1>4, <1>a, <1>c DEF GiveUp, RecoveryCas, TodoStep
<1>5. CASE Reschedule(s)
  BY <1>5, <1>c DEF Reschedule, TodoStep
<1> QED
  BY <1>1, <1>2, <1>3, <1>4, <1>5 DEF RecoverSlice

\* Every step of Next has one of these effects.
LEMMA StepsAreSliceSteps ==
    TypeOK /\ [Next]_vars => ReconcileStep \/ (SliceStep /\ GateKept)
<1> SUFFICES ASSUME TypeOK, [Next]_vars PROVE ReconcileStep \/ (SliceStep /\ GateKept)
  OBVIOUS
<1> USE DEF rowVars, jobVars, callVars, historyVars, ghostVars
<1>1. Reconcile => ReconcileStep
  BY Zenon DEF Reconcile, ReconcileStep
<1> SUFFICES ASSUME ~Reconcile PROVE SliceStep
  BY <1>1, GateStep
<1>2. CASE \E r \in Requests : AcceptRequest(r) \/ RequestStep(r)
  BY <1>2, RequestsAreSliceSteps
<1>3. CASE \E s \in Slices : JobStep(s) \/ Misfire(s) \/ CheckFails(s) \/ NotReached(s) \/ ReplyLost(s)
  BY <1>3, JobsAreSliceSteps
<1>4. CASE \E s \in Slices : RecoverSlice(s)
  BY <1>4, RecoveryIsSliceSteps
<1>5. CASE UNCHANGED vars \/ ForceGate \/ \E h \in {"kill_switch", "breaker"} : SwitchHalt(h)
  <2>1. PassStep
    BY <1>5, Zenon DEF vars, ForceGate, SwitchHalt, PassStep
  <2> QED
    BY <2>1 DEF SliceStep
<1>6. CASE CancelRows
  <2>1. CancelStep
    BY <1>6, Zenon DEF CancelRows, CancelStep
  <2> QED
    BY <2>1 DEF SliceStep
<1>7. CASE RemoveJobs
  <2>1. RemoveStep
    BY <1>7, Zenon DEF RemoveJobs, RemoveStep
  <2> QED
    BY <2>1 DEF SliceStep
<1>8. CASE CancelParent
  BY <1>8 DEF CancelParent, ParentStep, SliceStep
<1>9. CASE Restart
  <2>1. RecoverySet("wait", {})
    BY <1>9 DEF Restart, Idle, RecoverySet
  <2>2. RestartStep
    BY <1>9, <2>1, Zenon DEF Restart, RestartStep
  <2> QED
    BY <2>2 DEF SliceStep
<1>10. CASE BeginRecovery
  BY <1>10 DEF BeginRecovery, Idle, RecoverySet, BeginStep, SliceStep
<1>11. CASE EndRecovery
  <2>1. RecoverySet("over", {})
    BY <1>11 DEF EndRecovery, Idle, RecoverySet
  <2>2. OverStep
    BY <1>11, <2>1, Zenon DEF EndRecovery, OverStep
  <2> QED
    BY <2>2 DEF SliceStep
<1>12. CASE Cascade
  <2>1. RecoverySet("over", {})
    BY <1>12 DEF Cascade, Idle, RecoverySet
  <2>2. CancelStep
    BY <1>12, <2>1, Zenon DEF Cascade, CancelStep
  <2> QED
    BY <2>2 DEF SliceStep
<1>13. CASE FinishRecovery
  <2>1. RecoverySet("over", {})
    BY <1>13 DEF FinishRecovery, Idle, RecoverySet
  <2>2. ParentStep \/ OverStep
    BY <1>13, <2>1 DEF FinishRecovery, ParentStep, OverStep
  <2> QED
    BY <2>2 DEF SliceStep
<1> QED
  BY <1>2, <1>3, <1>4, <1>5, <1>6, <1>7, <1>8, <1>9, <1>10, <1>11, <1>12, <1>13 DEF Next

-----------------------------------------------------------------------------
(* The inductive invariant.                                                *)

\* Before the plan is stored there is nothing to schedule, run or recover.
Unplanned ==
    parent = "none" =>
        /\ \A s \in Slices : status[s] = "none" /\ job[s] = "none"
        /\ \A r \in Requests : request[r] \notin Planning
        /\ live = {}
        /\ recovery.todo = {}

\* One request schedules the plan, and finds it as it was stored, but for a
\* cancellation.
Planned ==
    \A r \in Requests : request[r] = "schedule" =>
        /\ \A s \in Slices : status[s] \in {"pending_new", "canceled"} /\ job[s] = "none"
        /\ live = {}
        /\ \A p \in Requests : request[p] = "schedule" => p = r

\* The slices of a parent at the broker get their jobs from recovery alone,
\* each one once.
Recovering ==
    parent = "accepted" =>
        /\ \A r \in Requests : request[r] \notin Planning
        /\ recovery.step = "wait" => \A s \in Slices : job[s] = "none"
        /\ \A s \in recovery.todo :
              job[s] = "none" /\ status[s] \in {"pending_new", "canceled", "accepted"}

\* is_terminal is set on rows that are over, and nothing works on those.
LockedIsOver == \A s \in locked : status[s] \in Ended /\ job[s] = "none"

\* A row written after the submission is that of an order the broker has.
RecordIsLive == \A s \in Slices : job[s] = "record" => s \in live

\* A slice that was stopped stays canceled or is over, and its job does not
\* get past the guard.
StoppedStays ==
    \A s \in stopped : /\ s \notin live
                       /\ job[s] # "submit"
                       /\ status[s] = "canceled" \/ s \in locked

\* Recovery lists no slice the broker has: reconciliation saw them first.
Reconciled ==
    parent = "accepted" /\ ~bypassed =>
        /\ recovery.step = "wait" /\ gate => \A s \in live : status[s] # "pending_new"
        /\ recovery.todo \intersect live = {}

\* A parent expires when all its rows are locked.
ExpiredLocked == parent = "expired" => locked = Slices

PlanInv == Unplanned /\ Planned /\ Recovering

SliceInv ==
    /\ PlanInv /\ LockedIsOver /\ RecordIsLive /\ StoppedStays /\ Reconciled
    /\ NeverSubmittedTwice /\ LiveSliceStaysOpen /\ ExpiredLocked

\* The types the invariant's proof uses, without the flags.
SliceShape ==
    /\ status \in [Slices -> SliceStatuses]
    /\ job \in [Slices -> JobSteps]
    /\ request \in [Requests -> RequestSteps]
    /\ locked \subseteq Slices
    /\ live \subseteq Slices
    /\ stopped \subseteq Slices
    /\ recovery.todo \subseteq Slices

\* They follow from TypeOK.
LEMMA ShapeOfTypes == TypeOK => SliceShape
<1> SUFFICES ASSUME TypeOK PROVE SliceShape
  OBVIOUS
<1>1. RowsType /\ JobsType /\ RecoveryType
  BY SliceTypeParts
<1> QED
  BY <1>1 DEF RowsType, JobsType, RecoveryType, SliceShape

\* A row with is_terminal set is left alone, one without takes the status, and
\* is locked if the status ends it.
LEMMA CasEffect ==
    ASSUME SliceShape, NEW s \in Slices, NEW new, Cas(s, new)
    PROVE  /\ \A t \in Slices \ {s} : status'[t] = status[t] /\ (t \in locked' <=> t \in locked)
           /\ s \in locked => status'[s] = status[s] /\ s \in locked'
           /\ s \notin locked => status'[s] = new /\ (s \in locked' <=> new \in TerminalStatuses)
           /\ locked' \subseteq Slices
  BY DEF Cas, SliceShape

\* Requests, halts and operators leave the invariant alone.
LEMMA RequestMoveKeeps ==
    ASSUME SliceShape, SliceInv, Slices' = Slices, GateKept, NEW r \in Requests, RequestMove(r)
    PROVE  SliceInv'
<1> USE DEF SliceShape, SliceInv, PlanInv
<1>1. CASE AnswerStep(r)
  BY <1>1 DEF AnswerStep, GateKept, Unplanned, Planned, Recovering, LockedIsOver, RecordIsLive,
              StoppedStays, Reconciled, NeverSubmittedTwice, LiveSliceStaysOpen, ExpiredLocked, Planning
<1>2. CASE StoreStep(r)
  <2>1. locked = {} /\ stopped = {}
    BY <1>2 DEF StoreStep, Unplanned, LockedIsOver, StoppedStays, Ended, TerminalStatuses
  <2>2. PlanInv'
    BY <1>2 DEF StoreStep, Unplanned, Planned, Recovering, Planning
  <2>3. LockedIsOver' /\ RecordIsLive' /\ StoppedStays'
    BY <1>2, <2>1 DEF StoreStep, LockedIsOver, RecordIsLive, StoppedStays
  <2>4. Reconciled' /\ ExpiredLocked'
    BY <1>2 DEF StoreStep, Reconciled, ExpiredLocked
  <2>5. NeverSubmittedTwice' /\ LiveSliceStaysOpen'
    BY <1>2, <2>1 DEF StoreStep, Unplanned, NeverSubmittedTwice, LiveSliceStaysOpen
  <2> QED
    BY <2>2, <2>3, <2>4, <2>5
<1>3. CASE ScheduleStep(r)
  <2>1. locked = {} /\ live = {}
    BY <1>3 DEF ScheduleStep, Planned, LockedIsOver, Ended, TerminalStatuses
  <2>2. parent \notin {"none", "accepted"}
    BY <1>3 DEF ScheduleStep, Unplanned, Recovering, Planning
  <2> QED
    BY <1>3, <2>1, <2>2 DEF ScheduleStep, GateKept, Unplanned, Planned, Recovering, LockedIsOver,
                RecordIsLive, StoppedStays, Reconciled, NeverSubmittedTwice, LiveSliceStaysOpen,
                ExpiredLocked, Planning
<1> QED
  BY <1>1, <1>2, <1>3 DEF RequestMove

\* A step of a job keeps what is known of the plan.
LEMMA JobMoveKeepsPlan ==
    ASSUME SliceShape, SliceInv, Slices' = Slices, GateKept, NEW s \in Slices, JobMove(s)
    PROVE  PlanInv' /\ Reconciled'
<1> USE DEF SliceShape, SliceInv, PlanInv
<1>1. /\ job[s] # "none"
      /\ UNCHANGED <<parent, request, recovery>>
      /\ \A t \in Slices \ {s} : job'[t] = job[t] /\ status'[t] = status[t]
      /\ live' \subseteq live \union {s}
  BY CasEffect DEF JobMove, MoveStep, GiveUpStep, PlaceStep, RecordStep, LostStep
<1>2. parent # "none" /\ \A r \in Requests : request[r] # "schedule"
  BY <1>1 DEF Unplanned, Planned
<1>3. parent = "accepted" => s \notin recovery.todo /\ recovery.step # "wait"
  BY <1>1 DEF Recovering
<1> QED
  BY <1>1, <1>2, <1>3 DEF Unplanned, Planned, Recovering, Reconciled, GateKept

\* A step of a job on its own slice: a locked row has no job, only the guard
\* leads to the submission, and only an unlocked row is written.
LEMMA JobMoveKeeps ==
    ASSUME SliceShape, SliceInv, Slices' = Slices, GateKept, NEW s \in Slices, JobMove(s)
    PROVE  SliceInv'
<1> USE DEF SliceShape, SliceInv
<1>a. PlanInv' /\ Reconciled'
  BY JobMoveKeepsPlan
<1>b. job[s] # "none" /\ s \notin locked /\ parent' = parent /\ stopped' = stopped
  BY DEF JobMove, MoveStep, GiveUpStep, PlaceStep, RecordStep, LostStep, LockedIsOver
<1>c. parent # "expired"
  BY <1>b DEF ExpiredLocked
<1>d. Ended \subseteq TerminalStatuses
  BY DEF Ended
<1>1. CASE MoveStep(s)
  BY <1>a, <1>b, <1>c, <1>1
     DEF MoveStep, GateKept, LockedIsOver, RecordIsLive, StoppedStays, NeverSubmittedTwice,
         LiveSliceStaysOpen, ExpiredLocked
<1>2. CASE GiveUpStep(s)
  <2>1. PICK new \in Ended : Cas(s, new)
    BY <1>2 DEF GiveUpStep
  <2>2. /\ status'[s] \in Ended /\ s \in locked'
        /\ \A t \in Slices \ {s} : status'[t] = status[t] /\ (t \in locked' <=> t \in locked)
        /\ locked' \subseteq Slices
    BY <2>1, <1>b, <1>d, CasEffect
  <2> QED
    BY <1>a, <1>b, <1>c, <1>2, <2>2
       DEF GiveUpStep, GateKept, LockedIsOver, RecordIsLive, StoppedStays, NeverSubmittedTwice,
           LiveSliceStaysOpen, ExpiredLocked
<1>3. CASE PlaceStep(s)
  BY <1>a, <1>b, <1>c, <1>3
     DEF PlaceStep, GateKept, LockedIsOver, RecordIsLive, StoppedStays, NeverSubmittedTwice,
         LiveSliceStaysOpen, ExpiredLocked
<1>4. CASE RecordStep(s)
  <2>1. PICK new \in {"submitted", "submitted_unconfirmed"} : Cas(s, new)
    BY <1>4 DEF RecordStep
  <2>2. /\ s \notin locked'
        /\ \A t \in Slices \ {s} : status'[t] = status[t] /\ (t \in locked' <=> t \in locked)
        /\ locked' \subseteq Slices
    BY <2>1, <1>b, CasEffect DEF TerminalStatuses
  <2> QED
    BY <1>a, <1>b, <1>c, <1>4, <2>2
       DEF RecordStep, GateKept, LockedIsOver, RecordIsLive, StoppedStays, NeverSubmittedTwice,
           LiveSliceStaysOpen, ExpiredLocked
<1>5. CASE LostStep(s)
  <2>1. /\ \A t \in Slices \ {s} : status'[t] = status[t] /\ (t \in locked' <=> t \in locked)
        /\ s \in locked' => status'[s] \in Ended /\ job'[s] = "none"
        /\ locked' \subseteq Slices
    <3>1. CASE UNCHANGED <<status, locked>>
      BY <3>1, <1>b
    <3>2. CASE job' = [job EXCEPT ![s] = "none"] /\ \E new \in Ended : Cas(s, new)
      BY <3>2, <1>b, <1>d, CasEffect
    <3> QED
      BY <1>5, <3>1, <3>2 DEF LostStep
  <2> QED
    BY <1>a, <1>b, <1>c, <1>5, <2>1
       DEF LostStep, GateKept, LockedIsOver, RecordIsLive, StoppedStays, NeverSubmittedTwice,
           LiveSliceStaysOpen, ExpiredLocked
<1> QED
  BY <1>1, <1>2, <1>3, <1>4, <1>5 DEF JobMove

\* Recovery gives a job, or an end, only to a slice without one that the
\* broker does not have.
LEMMA TodoKeeps ==
    ASSUME SliceShape, SliceInv, Slices' = Slices, GateKept, NEW s \in Slices, TodoStep(s)
    PROVE  SliceInv'
<1> USE DEF SliceShape, SliceInv, PlanInv, RecoverySet
<1>a. /\ recovery.step = "slices" /\ s \in recovery.todo
      /\ recovery'.step = recovery.step /\ recovery'.todo = recovery.todo \ {s}
      /\ UNCHANGED <<parent, live, unheard, stopped, request>>
  BY DEF TodoStep
<1>b. parent # "none"
  BY <1>a DEF Unplanned
<1>1. CASE UNCHANGED <<status, locked, job>>
  BY <1>a, <1>b, <1>1
     DEF GateKept, Unplanned, Planned, Recovering, LockedIsOver, RecordIsLive, StoppedStays,
         Reconciled, NeverSubmittedTwice, LiveSliceStaysOpen, ExpiredLocked
<1>c. ASSUME parent = "accepted"
      PROVE  /\ job[s] = "none" /\ s \notin locked /\ parent # "expired"
             /\ \A r \in Requests : request[r] \notin Planning
             /\ ~bypassed => s \notin live
  BY <1>a, <1>c DEF Recovering, LockedIsOver, Ended, TerminalStatuses, Reconciled
<1>2. CASE parent = "accepted" /\ (\E new \in Ended : Cas(s, new)) /\ UNCHANGED job
  <2>1. PICK new \in Ended : Cas(s, new)
    BY <1>2
  <2>2. /\ status'[s] \in Ended /\ s \in locked'
        /\ \A t \in Slices \ {s} : status'[t] = status[t] /\ (t \in locked' <=> t \in locked)
        /\ locked' \subseteq Slices
    BY <1>2, <2>1, <1>c, CasEffect DEF Ended
  <2>3. "pending_new" \notin Ended /\ "schedule" \in Planning
    BY DEF Ended, TerminalStatuses, Planning
  <2> QED
    BY <1>a, <1>b, <1>c, <1>2, <2>2, <2>3
       DEF GateKept, Unplanned, Planned, Recovering, LockedIsOver, RecordIsLive, StoppedStays,
           Reconciled, NeverSubmittedTwice, LiveSliceStaysOpen, ExpiredLocked
<1>3. CASE parent = "accepted" /\ job' = [job EXCEPT ![s] = "waiting"] /\ UNCHANGED <<status, locked>>
  BY <1>a, <1>b, <1>c, <1>3
     DEF GateKept, Unplanned, Planned, Recovering, LockedIsOver, RecordIsLive, StoppedStays,
         Reconciled, NeverSubmittedTwice, LiveSliceStaysOpen, ExpiredLocked, Planning
<1> QED
  BY <1>1, <1>2, <1>3 DEF TodoStep

\* A cancellation stops the slices whose jobs have yet to look, and touches
\* pending rows only.
LEMMA CancelKeeps ==
    ASSUME SliceShape, SliceInv, Slices' = Slices, GateKept, CancelStep
    PROVE  SliceInv'
<1> USE DEF SliceShape, SliceInv, PlanInv, CancelStep, CancelPending
<1>1. Unplanned' /\ Planned' /\ Recovering'
  BY DEF RecoverySet, Unplanned, Planned, Recovering, Planning
<1>2. LockedIsOver' /\ RecordIsLive' /\ ExpiredLocked'
  BY DEF LockedIsOver, RecordIsLive, ExpiredLocked, Ended, TerminalStatuses
<1>3. StoppedStays'
  BY DEF StoppedStays, Stoppable, LockedIsOver, Ended, TerminalStatuses
<1>4. Reconciled'
  BY DEF RecoverySet, GateKept, Reconciled
<1>5. NeverSubmittedTwice' /\ LiveSliceStaysOpen'
  BY DEF GateKept, NeverSubmittedTwice, LiveSliceStaysOpen
<1> QED
  BY <1>1, <1>2, <1>3, <1>4, <1>5

\* Reconciliation writes the rows of slices the broker has, and after it none
\* of them is pending.
LEMMA ReconcileKeeps ==
    ASSUME SliceShape, SliceInv, Slices' = Slices, ~bypassed' => ~bypassed, ReconcileStep
    PROVE  SliceInv'
<1> USE DEF SliceShape, SliceInv, PlanInv, ReconcileStep
<1>1. Unplanned' /\ Planned' /\ Recovering'
  BY DEF Unplanned, Planned, Recovering
<1>2. LockedIsOver' /\ RecordIsLive' /\ ExpiredLocked'
  BY DEF LockedIsOver, RecordIsLive, ExpiredLocked
<1>3. StoppedStays'
  BY DEF StoppedStays
<1>4. Reconciled'
  <2>1. \A s \in live : status'[s] # "pending_new"
    BY DEF LockedIsOver, Ended, TerminalStatuses
  <2> QED
    BY <2>1 DEF Reconciled
<1>5. NeverSubmittedTwice' /\ LiveSliceStaysOpen'
  BY DEF NeverSubmittedTwice, LiveSliceStaysOpen
<1> QED
  BY <1>1, <1>2, <1>3, <1>4, <1>5

\* The invariant is inductive.
LEMMA SliceInvStep == TypeOK /\ SliceInv /\ [Next]_vars => SliceInv'
<1> SUFFICES ASSUME TypeOK, SliceInv, [Next]_vars PROVE SliceInv'
  OBVIOUS
<1>a. SliceShape /\ Slices' = Slices
  BY ShapeOfTypes, SameOrder
<1>b. ReconcileStep \/ (SliceStep /\ GateKept)
  BY StepsAreSliceSteps
<1>c. ~bypassed' => ~bypassed
  BY GateStep, Zenon DEF Reconcile, GateKept, historyVars, ghostVars
<1>1. CASE ReconcileStep
  BY <1>a, <1>c, <1>1, ReconcileKeeps
<1>2. CASE \E r \in Requests : RequestMove(r) /\ GateKept
  BY <1>a, <1>2, RequestMoveKeeps
<1>3. CASE \E s \in Slices : (JobMove(s) \/ TodoStep(s)) /\ GateKept
  BY <1>a, <1>3, JobMoveKeeps, TodoKeeps
<1>4. CASE CancelStep /\ GateKept
  BY <1>a, <1>4, CancelKeeps
<1> USE <1>a DEF SliceShape, SliceInv, PlanInv, GateKept, Unplanned, Planned, Recovering, LockedIsOver,
           RecordIsLive, StoppedStays, Reconciled, NeverSubmittedTwice, LiveSliceStaysOpen, ExpiredLocked
<1>5. CASE PassStep /\ GateKept
  BY <1>5 DEF PassStep
<1>6. CASE ParentStep /\ GateKept
  BY <1>6 DEF ParentStep
<1>7. CASE RemoveStep /\ GateKept
  BY <1>7 DEF RemoveStep
<1>8. CASE BeginStep /\ GateKept
  BY <1>8 DEF BeginStep, RecoverySet
<1>9. CASE OverStep /\ GateKept
  BY <1>9 DEF OverStep, RecoverySet
<1>10. CASE RestartStep /\ GateKept
  BY <1>10 DEF RestartStep, RecoverySet, Planning
<1> HIDE DEF SliceInv, GateKept
<1> QED
  BY <1>b, <1>1, <1>2, <1>3, <1>4, <1>5, <1>6, <1>7, <1>8, <1>9, <1>10 DEF SliceStep

\* TypeOK and SliceInv hold in every state.
LEMMA SliceInvariant == Spec => [](TypeOK /\ SliceInv)
<1>1. Init => SliceInv
  BY StartsAssumption
     DEF Init, Idle, SliceInv, PlanInv, Unplanned, Planned, Recovering, LockedIsOver, RecordIsLive,
         StoppedStays, Reconciled, NeverSubmittedTwice, LiveSliceStaysOpen, ExpiredLocked, Planning
<1>2. TypeOK /\ SliceInv /\ [Next]_vars => TypeOK' /\ SliceInv'
  BY SliceTypeStep, SliceInvStep
<1> QED
  BY <1>1, <1>2, SlicesTypeCorrect, SliceTypeStep, PTL DEF Spec

\* For any plan, requests, retries, restarts and recoveries: a slice canceled
\* before its job's last look at the row never reaches the broker.
THEOREM CanceledSliceStaysCanceled == Spec => []CancelHolds
<1>1. TypeOK /\ SliceInv => CancelHolds
  BY DEF SliceInv, StoppedStays, CancelHolds
<1> QED
  BY <1>1, SliceInvariant, PTL

\* Unless the gate was forced open or the broker's answer lost, no job sets
\* out to submit a slice the broker has.
THEOREM SlicesAreNotResubmitted == Spec => []NeverSubmittedTwice
<1>1. TypeOK /\ SliceInv => NeverSubmittedTwice
  BY DEF SliceInv
<1> QED
  BY <1>1, SliceInvariant, PTL

\* With the same exceptions, is_terminal is never set on the row of a slice the
\* broker has, so the row still takes what the broker reports.
THEOREM LiveSlicesStayOpen == Spec => []LiveSliceStaysOpen
<1>1. TypeOK /\ SliceInv => LiveSliceStaysOpen
  BY DEF SliceInv
<1> QED
  BY <1>1, SliceInvariant, PTL

\* A parent that recovery expired has no slice with a job, an open row or, the
\* same exceptions apart, an order at the broker.
THEOREM ExpiredParentsAreOver == Spec => []ExpiredParentIsOver
<1>1. TypeOK /\ SliceInv => ExpiredParentIsOver
  BY DEF TypeOK, SliceInv, LockedIsOver, ExpiredLocked, LiveSliceStaysOpen, ExpiredParentIsOver
<1> QED
  BY <1>1, SliceInvariant, PTL

\* For every feasible order, and whichever slices the seed picks: the slices
\* add up to the order, none is empty or above the liquidity constraint, and
\* the last one is sent within the duration.
THEOREM EveryPlanCoversItsOrder == Spec => []PlanCoversOrder
<1>1. ASSUME NEW o \in Orders PROVE PlanCovers(o)
  <2>1. o \in Order /\ Feasible(o)
    BY OrdersAssumption
  <2> DEFINE n == NumSlices(o)
             base == o.qty \div n
  <2>2. n \in Nat \ {0} /\ o.qty \in Nat \ {0} /\ o.cap \in Nat \ {0} /\ o.qty >= n
    BY <2>1, NumSlicesPositive DEF Order, Feasible
  <2>3. base \in Nat /\ o.qty % n \in 0 .. n - 1 /\ o.qty = n * base + (o.qty % n)
    <3> HIDE DEF n
    <3> QED
      BY <2>2, DivBounds
  <2>4. o.qty <= o.cap * n
    BY <2>1, NumSlicesBounds
  <2>5. ASSUME NEW q \in SliceQtys(o)
        PROVE  Cardinality(PlanShares(q)) = o.qty /\ \A s \in DOMAIN q : q[s] \in 1 .. o.cap
    <3>1. PICK extra \in SUBSET (0 .. n - 1) :
              /\ Cardinality(extra) = o.qty % n
              /\ q = [i \in 0 .. n - 1 |-> base + (IF i \in extra THEN 1 ELSE 0)]
      BY DEF SliceQtys
    <3> HIDE DEF n, base
    <3>2. Cardinality(PlanShares(q)) = n * base + Cardinality(extra)
      <4>1. n \in Nat
        BY <2>2
      <4> QED
        BY <2>3, <3>1, <4>1, SharesOfPlan
    <3>3. \A q0, m, b, r, c \in Nat :
              /\ q0 = m * b + r /\ m >= 1 /\ r < m
              /\ q0 >= m /\ q0 <= c * m
              => b >= 1 /\ b <= c /\ (r > 0 => b + 1 <= c)
      <4> TAKE q0, m, b, r, c \in Nat
      <4> HAVE /\ q0 = m * b + r /\ m >= 1 /\ r < m
               /\ q0 >= m /\ q0 <= c * m
      <4>1. b >= 1
        OBVIOUS
      <4>2. b <= c
        OBVIOUS
      <4>3. r > 0 => b + 1 <= c
        OBVIOUS
      <4> QED
        BY <4>1, <4>2, <4>3
    <3>4. base >= 1 /\ base <= o.cap /\ (o.qty % n > 0 => base + 1 <= o.cap)
      BY <2>2, <2>3, <2>4, <3>3
    <3>5. o.qty % n = 0 => extra = {}
      <4>1. IsFiniteSet(extra)
        <5>1. 0 \in Int /\ n - 1 \in Int
          BY <2>2
        <5>2. IsFiniteSet(0 .. n - 1)
          BY <5>1, FS_Interval
        <5> QED
          BY <5>2, FS_Subset
      <4> QED
        BY <3>1, <4>1, FS_EmptySet
    <3>6. \A s \in DOMAIN q : q[s] \in 1 .. o.cap
      BY <2>2, <2>3, <3>1, <3>4, <3>5
    <3> QED
      BY <2>3, <3>1, <3>2, <3>6
  <2>6. (NumSlices(o) - 1) * Interval(o) <= o.seconds
    BY <2>1, NumSlicesBounds
  <2> QED
    BY <2>5, <2>6 DEF PlanCovers
<1>2. TypeOK => PlanCoversOrder
  BY <1>1 DEF TypeOK, PlanCoversOrder
<1> QED
  BY <1>2, SlicesTypeCorrect, PTL
===============================================================================
