-------------------------- MODULE ModelReloadProofs ---------------------------
(***************************************************************************)
(* The hot reload, for any versions, any number of validation threads,     *)
(* publications, errors and restarts: a loaded model is replaced only by   *)
(* one that was validated against it, and its metadata follow it.          *)
(***************************************************************************)
EXTENDS ModelReload, TLAPS

\* The service starts within the types.
LEMMA TypeInit == Init => TypeOK
<1> SUFFICES ASSUME Init PROVE TypeOK
  OBVIOUS
<1>1. generator \in BOOLEAN
  BY DEF Init
<1>2. check \in [step : CheckSteps, caller : Callers, seen : Versions \union {None}]
  BY DEF Init, Idle, CheckSteps, Callers
<1>3. pending \in [id : Ids \union {None}, version : Versions \union {None}]
  BY DEF Init, NotPending
<1>4. thread \in [Ids -> [step : ThreadSteps, base : Versions \union {None},
                          candidate : Versions \union {None}]]
  BY DEF Init, NoThread, ThreadSteps
<1> QED
  BY <1>1, <1>2, <1>3, <1>4, VersionsAssumption, ReloadBoundAssumption DEF Init, TypeOK

\* A call that ends leaves a well-typed process.
LEMMA ReturnType ==
    ASSUME TypeOK, NEW ok \in BOOLEAN, Return(ok)
    PROVE  /\ check' \in [step : CheckSteps, caller : Callers, seen : Versions \union {None}]
           /\ phase' \in {"starting", "running", "unpolled"}
           /\ generator' \in BOOLEAN
<1>1. check' \in [step : CheckSteps, caller : Callers, seen : Versions \union {None}]
  BY DEF Return, Idle, CheckSteps, Callers
<1>2. phase' \in {"starting", "running", "unpolled"}
  BY DEF Return, TypeOK
<1>3. generator' \in BOOLEAN
  BY Zenon DEF Return, TypeOK
<1> QED
  BY <1>1, <1>2, <1>3

\* The variables keep their types.
LEMMA TypeStep == TypeOK /\ [Next]_vars => TypeOK'
<1> SUFFICES ASSUME TypeOK, [Next]_vars PROVE TypeOK'
  OBVIOUS
<1> USE VersionsAssumption, ReloadBoundAssumption
        DEF TypeOK, CheckSteps, ThreadSteps, Callers, checkVars, currentVars, Fault, At, GotoStep,
            ThreadAt, ThreadGoto, ThreadEnds, ClearOwn, NoThread, NotPending
<1>1. CASE UNCHANGED vars
  BY <1>1 DEF vars
<1>2. ASSUME NEW c \in Callers, ReadActive(c) \/ DatabaseFails(c) PROVE TypeOK'
  BY <1>2 DEF ReadActive, DatabaseFails
<1>a. ASSUME Return(TRUE)
      PROVE  /\ check' \in [step : CheckSteps, caller : Callers, seen : Versions \union {None}]
             /\ phase' \in {"starting", "running", "unpolled"}
             /\ generator' \in BOOLEAN
  BY <1>a, ReturnType
<1>b. ASSUME NEW s \in CheckSteps, GotoStep(s)
      PROVE  check' \in [step : CheckSteps, caller : Callers, seen : Versions \union {None}]
  BY <1>b
<1>3. CASE Compare
  <2>1. CASE Return(TRUE)
    BY <1>3, <1>a, <2>1 DEF Compare
  <2>2. CASE GotoStep("lock") /\ UNCHANGED <<phase, generator>>
    BY <1>3, <1>b, <2>2 DEF Compare
  <2> QED
    BY <1>3, <2>1, <2>2 DEF Compare
<1>4. CASE Supersede
  <2>1. CASE Return(TRUE) /\ UNCHANGED pending
    BY <1>4, <1>a, <2>1 DEF Supersede
  <2>2. CASE pending' = NotPending /\ GotoStep("load") /\ UNCHANGED <<phase, generator>>
    BY <1>4, <1>b, <2>2 DEF Supersede
  <2> QED
    BY <1>4, <2>1, <2>2 DEF Supersede
<1>5. CASE Load
  <2>1. CASE model' = check.seen /\ metadata' = check.seen /\ Return(TRUE)
    BY <1>5, <1>a, <2>1 DEF Load
  <2>2. CASE GotoStep("pend") /\ UNCHANGED <<currentVars, phase, generator>>
    BY <1>5, <1>b, <2>2 DEF Load
  <2> QED
    BY <1>5, <2>1, <2>2 DEF Load
<1>6. CASE Pend
  BY <1>6 DEF Pend
<1>7. CASE Capture
  <2>1. thread' \in [Ids -> [step : ThreadSteps, base : Versions \union {None},
                             candidate : Versions \union {None}]]
    BY <1>7 DEF Capture
  <2>2. Return(TRUE) /\ UNCHANGED <<active, model, metadata, pending, publishes, faults>>
    BY <1>7 DEF Capture
  <2> QED
    BY <1>a, <2>1, <2>2
<1>8. CASE LoadFails
  <2>1. /\ check' \in [step : CheckSteps, caller : Callers, seen : Versions \union {None}]
        /\ phase' \in {"starting", "running", "unpolled"}
        /\ generator' \in BOOLEAN
    BY <1>8, ReturnType DEF LoadFails
  <2> QED
    BY <1>8, <2>1 DEF LoadFails
<1>9. ASSUME NEW i \in Ids, ThreadStep(i) PROVE TypeOK'
  <2>1. CASE StartValidation(i)
    BY <2>1 DEF StartValidation
  <2>2. CASE Validate(i)
    BY <2>2 DEF Validate
  <2>3. CASE ValidationError(i)
    BY <2>3 DEF ValidationError
  <2>4. CASE Discard(i)
    BY <2>4 DEF Discard
  <2>5. CASE Activate(i)
    BY <2>5 DEF Activate
  <2>6. CASE FinishActivation(i)
    BY <2>6 DEF FinishActivation
  <2> QED
    BY <1>9, <2>1, <2>2, <2>3, <2>4, <2>5, <2>6 DEF ThreadStep
<1>10. ASSUME NEW v \in Versions, Publish(v) PROVE TypeOK'
  BY <1>10 DEF Publish
<1>11. CASE Restart
  <2>1. check' \in [step : CheckSteps, caller : Callers, seen : Versions \union {None}]
    BY <1>11 DEF Restart, Idle
  <2>2. pending' \in [id : Ids \union {None}, version : Versions \union {None}]
    BY <1>11 DEF Restart
  <2>3. thread' \in [Ids -> [step : ThreadSteps, base : Versions \union {None},
                             candidate : Versions \union {None}]]
    BY <1>11 DEF Restart
  <2>4. generator' \in BOOLEAN
    BY <1>11 DEF Restart
  <2> QED
    BY <1>11, <2>1, <2>2, <2>3, <2>4 DEF Restart
<1> QED
  BY <1>1, <1>2, <1>3, <1>4, <1>5, <1>6, <1>7, <1>8, <1>9, <1>10, <1>11 DEF Next, CheckStep

\* reload_if_changed, the validation threads, errors and restarts keep the
\* process, the pending fields and the threads within their types.
THEOREM ReloadTypeCorrect == Spec => []TypeOK
  BY TypeInit, TypeStep, PTL DEF Spec

-----------------------------------------------------------------------------
(* The inductive invariant.                                                *)

\* From the superseding of a pending validation to its own, a call finds the
\* pending fields empty; then they hold its id, which no thread has yet.
CallInv ==
    /\ At("load") \/ At("pend") => pending = NotPending
    /\ At("capture") => pending.id \in Ids /\ thread[pending.id].step = "none"

\* The thread of the pending validation compares with the model that is
\* current; one that switches is the pending one.
ThreadInv ==
    \A i \in Ids :
        /\ pending.id = i /\ thread[i].step \in {"start", "run", "passed", "rejected"}
               => thread[i].base = model
        /\ thread[i].step = "activated" => pending.id = i /\ thread[i].candidate = model

Inv ==
    /\ CallInv
    /\ ThreadInv
    /\ Unlocked => metadata = model

\* The invariant holds at first.
LEMMA InvInit == Init => Inv
  BY VersionsAssumption
     DEF Init, Inv, CallInv, ThreadInv, Unlocked, At, Idle, NoThread, NotPending, Ids

\* Every step of a call, of a thread, of the registry and every fault keeps it.
LEMMA InvStep == TypeOK /\ Inv /\ [Next]_vars => Inv'
<1> SUFFICES ASSUME TypeOK, Inv, [Next]_vars PROVE Inv'
  OBVIOUS
<1>n. None \notin Ids
  BY VersionsAssumption, ReloadBoundAssumption DEF Ids
<1> USE <1>n DEF TypeOK, CheckSteps, ThreadSteps, checkVars, currentVars, At, GotoStep, Idle,
            ThreadAt, ThreadGoto, ThreadEnds, ClearOwn, NoThread, NotPending,
            Inv, CallInv, ThreadInv, Unlocked
<1>1. CASE UNCHANGED vars
  BY <1>1 DEF vars
<1>2. ASSUME NEW c \in Callers, ReadActive(c) \/ DatabaseFails(c) PROVE Inv'
  BY <1>2 DEF ReadActive, DatabaseFails
<1>3. CASE Compare
  BY <1>3 DEF Compare, Return
<1>4. CASE Supersede
  BY <1>4 DEF Supersede, Return
<1>5. CASE Load
  BY <1>5 DEF Load, Return
<1>6. CASE Pend
  BY <1>6 DEF Pend
<1>7. CASE Capture
  BY <1>7 DEF Capture, Return
<1>8. CASE LoadFails
  BY <1>8 DEF LoadFails, Return
<1>9. ASSUME NEW i \in Ids, ThreadStep(i) PROVE Inv'
  <2>1. CASE StartValidation(i)
    BY <2>1 DEF StartValidation
  <2>2. CASE Validate(i)
    BY <2>2 DEF Validate
  <2>3. CASE ValidationError(i)
    BY <2>3 DEF ValidationError
  <2>4. CASE Discard(i)
    BY <2>4 DEF Discard
  <2>5. CASE Activate(i)
    BY <2>5 DEF Activate, Superseded
  <2>6. CASE FinishActivation(i)
    BY <2>6 DEF FinishActivation
  <2> QED
    BY <1>9, <2>1, <2>2, <2>3, <2>4, <2>5, <2>6 DEF ThreadStep
<1>10. ASSUME NEW v \in Versions, Publish(v) PROVE Inv'
  BY <1>10 DEF Publish
<1>11. CASE Restart
  BY <1>11 DEF Restart
<1> QED
  BY <1>1, <1>2, <1>3, <1>4, <1>5, <1>6, <1>7, <1>8, <1>9, <1>10, <1>11 DEF Next, CheckStep

\* The invariant holds in every reachable state.
LEMMA InvAlways == Spec => [](TypeOK /\ Inv)
  BY TypeInit, InvInit, TypeStep, InvStep, PTL DEF Spec

\* Outside the critical section of the one thread that switches both,
\* _current_metadata name _current_model, although reload_if_changed writes
\* them without the lock.
THEOREM MetadataFollowModel == Spec => []MetadataNameModel
<1>1. Inv => MetadataNameModel
  BY DEF Inv, ThreadInv, MetadataNameModel, Unlocked
<1> QED
  BY <1>1, InvAlways, PTL

\* A loaded model is replaced only in the critical section of a thread whose
\* validation passed against that model, however calls of the poll and of the
\* endpoint, rollbacks, superseded threads and restarts overlap.
THEOREM SwitchesAreValidated == Spec => SwitchIsValidated
<1> DEFINE Switch == model # None /\ model' \notin {None, model} =>
                        \E i \in Ids : /\ thread[i].step = "passed"
                                       /\ thread[i].base = model
                                       /\ thread[i].candidate = model'
<1>1. Inv /\ [Next]_vars => Switch
  <2> SUFFICES ASSUME Inv, [Next]_vars, model # None, model' # None, model' # model
               PROVE  Switch
    OBVIOUS
  <2>1. \E i \in Ids : Activate(i)
    BY DEF Next, CheckStep, ThreadStep, vars, ReadActive, DatabaseFails, Compare, Supersede,
           Load, Pend, Capture, LoadFails, StartValidation, Validate, ValidationError, Discard,
           FinishActivation, Publish, Restart, checkVars, currentVars
  <2>2. PICK i \in Ids : Activate(i)
    BY <2>1
  <2> QED
    BY <2>2 DEF Activate, ThreadAt, Superseded, Inv, ThreadInv
<1>2. Inv /\ [Next]_vars => [Switch]_vars
  BY <1>1
<1> QED
  BY <1>2, InvAlways, PTL DEF Spec, SwitchIsValidated
===============================================================================
