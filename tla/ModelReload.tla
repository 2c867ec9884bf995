----------------------------- MODULE ModelReload ------------------------------
(***************************************************************************)
(* Hot reload of the signal service's model                                *)
(* (apps/signal_service/model_registry.py and main.py): the active version *)
(* of the model_registry table is read at startup, by model_reload_task    *)
(* and on POST /model/reload; a version that replaces a loaded one is      *)
(* first compared with it by a shadow validation.                          *)
(*                                                                         *)
(* reload_if_changed runs in the event loop, so two calls never overlap.   *)
(* The validation runs in a thread beside it; both share the pending       *)
(* fields under _shadow_state_lock, and the current ones without it.  A    *)
(* version stands for the model file and for its metadata.                 *)
(***************************************************************************)
EXTENDS Naturals

CONSTANTS
    Versions,       \* versions of the strategy's model
    Approved,       \* versions that pass their shadow validation
    StartVersion,   \* the active version at first
    None,           \* no version, no validation
    Modelless,      \* may the service start without a model?
    MaxThreads,     \* bound on validation threads at a time
    MaxPublishes,   \* bound on changes of the active version
    MaxFaults       \* bound on errors and restarts

ASSUME VersionsAssumption ==
    /\ Approved \subseteq Versions
    /\ StartVersion \in Versions
    /\ None \notin Versions
    /\ None \notin Nat
ASSUME ReloadModeAssumption == Modelless \in BOOLEAN
ASSUME ReloadBoundAssumption ==
    /\ MaxThreads \in Nat \ {0}
    /\ MaxPublishes \in Nat
    /\ MaxFaults \in Nat

VARIABLES
    active,         \* the table's active version
    phase,          \* of the process: starting, running, or running without polls
    generator,      \* does the process have a SignalGenerator?
    check,          \* the call of reload_if_changed: its step, caller and version
    model,          \* _current_model
    metadata,       \* _current_metadata
    pending,        \* _pending_validation_id and the version of _pending_metadata
    thread,         \* the validation threads by their validation_id
    publishes,
    faults

checkVars == <<check, phase, generator>>
currentVars == <<model, metadata>>
vars == <<active, checkVars, currentVars, pending, thread, publishes, faults>>

\* Validation ids are only compared; one that no thread holds can be reused.
Ids == 1 .. MaxThreads
NotPending == [id |-> None, version |-> None]
Idle == [step |-> "idle", caller |-> "poll", seen |-> None]
NoThread == [step |-> "none", base |-> None, candidate |-> None]

Callers == {"startup", "poll", "manual"}
CheckSteps == {"idle", "compare", "lock", "load", "pend", "capture"}
ThreadSteps == {"none", "start", "run", "passed", "rejected", "activated"}

TypeOK ==
    /\ active \in Versions
    /\ phase \in {"starting", "running", "unpolled"}
    /\ generator \in BOOLEAN
    /\ check \in [step : CheckSteps, caller : Callers, seen : Versions \union {None}]
    /\ {model, metadata} \subseteq Versions \union {None}
    /\ pending \in [id : Ids \union {None}, version : Versions \union {None}]
    /\ thread \in [Ids -> [step : ThreadSteps, base : Versions \union {None},
                           candidate : Versions \union {None}]]
    /\ publishes \in 0 .. MaxPublishes
    /\ faults \in 0 .. MaxFaults

Init ==
    /\ active = StartVersion
    /\ phase = "starting"
    /\ generator = FALSE
    /\ check = Idle
    /\ model = None
    /\ metadata = None
    /\ pending = NotPending
    /\ thread = [i \in Ids |-> NoThread]
    /\ publishes = 0
    /\ faults = 0

Fault == faults < MaxFaults /\ faults' = faults + 1

\* A validation thread holds _shadow_state_lock from the new model to the
\* cleared pending fields.
Unlocked == \A i \in Ids : thread[i].step # "activated"

-----------------------------------------------------------------------------
(* reload_if_changed.                                                      *)

At(step) == check.step = step
GotoStep(step) == check' = [check EXCEPT !.step = step]

\* The call ends.  At startup its outcome decides whether the process goes
\* on, and with a SignalGenerator; a process that does not is started again.
Return(ok) ==
    /\ check' = Idle
    /\ IF check.caller = "startup"
       THEN /\ phase' = IF ok \/ Modelless THEN "running" ELSE "starting"
            /\ generator' = ok
       ELSE UNCHANGED <<phase, generator>>

\* The active version is read; the caller is the startup of the service, the
\* polling task or the endpoint.
ReadActive(caller) ==
    /\ At("idle")
    /\ \/ caller = "startup" /\ phase = "starting"
       \/ caller = "poll" /\ phase = "running"
       \/ caller = "manual" /\ phase # "starting"
    /\ check' = [step |-> "compare", caller |-> caller, seen |-> active]
    /\ UNCHANGED <<active, phase, generator, currentVars, pending, thread, publishes, faults>>

\* The database fails: with a model it stays loaded, and without one the
\* error goes up to the caller, where the polling task does not catch it.
DatabaseFails(caller) ==
    /\ At("idle")
    /\ Fault
    /\ \/ caller = "startup" /\ phase = "starting" /\ UNCHANGED phase
       \/ /\ caller = "poll"
          /\ phase = "running"
          /\ phase' = IF model = None THEN "unpolled" ELSE "running"
       \/ caller = "manual" /\ phase # "starting" /\ UNCHANGED phase
    /\ UNCHANGED <<active, check, generator, currentVars, pending, thread, publishes>>

\* version_changed, read without the lock.
Compare ==
    /\ At("compare")
    /\ IF metadata = check.seen
       THEN Return(TRUE)
       ELSE GotoStep("lock") /\ UNCHANGED <<phase, generator>>
    /\ UNCHANGED <<active, currentVars, pending, thread, publishes, faults>>

\* Mutant: the pending fields are cleared without the lock.
SupersedeUnlocked ==
    /\ At("lock")
    /\ IF pending.version = check.seen
       THEN UNCHANGED pending /\ Return(TRUE)
       ELSE pending' = NotPending /\ GotoStep("load") /\ UNCHANGED <<phase, generator>>
    /\ UNCHANGED <<active, currentVars, thread, publishes, faults>>

\* A validation of the same version goes on; one of another is superseded.
Supersede ==
    /\ At("lock")
    /\ Unlocked
    /\ IF pending.version = check.seen
       THEN UNCHANGED pending /\ Return(TRUE)
       ELSE pending' = NotPending /\ GotoStep("load") /\ UNCHANGED <<phase, generator>>
    /\ UNCHANGED <<active, currentVars, thread, publishes, faults>>

\* Mutant: validation is required also when there is nothing to compare with.
LoadValidates ==
    /\ At("load")
    /\ IF check.caller = "startup"
       THEN model' = check.seen /\ metadata' = check.seen /\ Return(TRUE)
       ELSE GotoStep("pend") /\ UNCHANGED <<currentVars, phase, generator>>
    /\ UNCHANGED <<active, pending, thread, publishes, faults>>

\* Mutant: the endpoint passes no validator.
LoadManualAtOnce ==
    /\ At("load")
    /\ IF model = None \/ check.caller = "manual"
       THEN model' = check.seen /\ metadata' = check.seen /\ Return(TRUE)
       ELSE GotoStep("pend") /\ UNCHANGED <<currentVars, phase, generator>>
    /\ UNCHANGED <<active, pending, thread, publishes, faults>>

\* The file is loaded and tried.  A first model becomes the current one at
\* once; startup passes no validator.
Load ==
    /\ At("load")
    /\ IF model = None
       THEN model' = check.seen /\ metadata' = check.seen /\ Return(TRUE)
       ELSE GotoStep("pend") /\ UNCHANGED <<currentVars, phase, generator>>
    /\ UNCHANGED <<active, pending, thread, publishes, faults>>

\* The file is missing or invalid: a loaded model is kept.
LoadFails ==
    /\ At("load")
    /\ Fault
    /\ Return(FALSE)
    /\ UNCHANGED <<active, currentVars, pending, thread, publishes>>

\* The version becomes the pending one, under a new id.
Pend ==
    /\ At("pend")
    /\ Unlocked
    /\ \E i \in Ids :
        /\ thread[i].step = "none"
        /\ pending' = [id |-> i, version |-> check.seen]
    /\ GotoStep("capture")
    /\ UNCHANGED <<active, phase, generator, currentVars, thread, publishes, faults>>

\* The model to compare with is read, and the validation is scheduled.
Capture ==
    /\ At("capture")
    /\ thread' = [thread EXCEPT ![pending.id] =
                    [step |-> "start", base |-> model, candidate |-> check.seen]]
    /\ Return(TRUE)
    /\ UNCHANGED <<active, currentVars, pending, publishes, faults>>

-----------------------------------------------------------------------------
(* _run_shadow_validation, in its thread.                                  *)

ThreadAt(i, step) == thread[i].step = step
ThreadGoto(i, step) == thread' = [thread EXCEPT ![i].step = step]
ThreadEnds(i) == thread' = [thread EXCEPT ![i] = NoThread]
Superseded(i) == pending.id # i \/ pending.version # thread[i].candidate
\* The finally clause.
ClearOwn(i) == pending' = IF pending.id = i THEN NotPending ELSE pending

\* A validation that is superseded, or has no model to compare with, is not
\* run.
StartValidation(i) ==
    /\ ThreadAt(i, "start")
    /\ Unlocked
    /\ IF thread[i].base = None \/ Superseded(i)
       THEN ThreadEnds(i) /\ ClearOwn(i)
       ELSE ThreadGoto(i, "run") /\ UNCHANGED pending
    /\ UNCHANGED <<active, checkVars, currentVars, publishes, faults>>

\* The shadow validator's verdict.
Validate(i) ==
    /\ ThreadAt(i, "run")
    /\ ThreadGoto(i, IF thread[i].candidate \in Approved THEN "passed" ELSE "rejected")
    /\ UNCHANGED <<active, checkVars, currentVars, pending, publishes, faults>>

\* Mutant: an error leaves the pending fields as they are.
ValidationErrorKeeps(i) ==
    /\ ThreadAt(i, "run")
    /\ Fault
    /\ ThreadEnds(i)
    /\ UNCHANGED <<active, checkVars, currentVars, pending, publishes>>

\* The validation raises.
ValidationError(i) ==
    /\ ThreadAt(i, "run")
    /\ Fault
    /\ Unlocked
    /\ ThreadEnds(i)
    /\ ClearOwn(i)
    /\ UNCHANGED <<active, checkVars, currentVars, publishes>>

\* A result that was superseded meanwhile is discarded; so is a rejected
\* candidate.
Discard(i) ==
    /\ \/ ThreadAt(i, "rejected")
       \/ ThreadAt(i, "passed") /\ Superseded(i)
    /\ Unlocked
    /\ ThreadEnds(i)
    /\ ClearOwn(i)
    /\ UNCHANGED <<active, checkVars, currentVars, publishes, faults>>

\* Under the lock, the candidate becomes the current model ...
Activate(i) ==
    /\ ThreadAt(i, "passed")
    /\ ~Superseded(i)
    /\ Unlocked
    /\ model' = thread[i].candidate
    /\ ThreadGoto(i, "activated")
    /\ UNCHANGED <<active, checkVars, metadata, pending, publishes, faults>>

\* ... then its metadata the current ones, and the lock is released.
FinishActivation(i) ==
    /\ ThreadAt(i, "activated")
    /\ metadata' = thread[i].candidate
    /\ pending' = NotPending
    /\ ThreadEnds(i)
    /\ UNCHANGED <<active, checkVars, model, publishes, faults>>

-----------------------------------------------------------------------------
(* The registry and the process.                                           *)

\* Another version is made active, or an earlier one again.
Publish(v) ==
    /\ publishes < MaxPublishes
    /\ v # active
    /\ active' = v
    /\ publishes' = publishes + 1
    /\ UNCHANGED <<checkVars, currentVars, pending, thread, faults>>

\* The process stops and is started again.
Restart ==
    /\ Fault
    /\ phase' = "starting"
    /\ generator' = FALSE
    /\ check' = Idle
    /\ model' = None
    /\ metadata' = None
    /\ pending' = NotPending
    /\ thread' = [i \in Ids |-> NoThread]
    /\ UNCHANGED <<active, publishes>>

-----------------------------------------------------------------------------

CheckStep == Compare \/ Supersede \/ Load \/ Pend \/ Capture
ThreadStep(i) ==
    \/ StartValidation(i) \/ Validate(i) \/ ValidationError(i)
    \/ Discard(i) \/ Activate(i) \/ FinishActivation(i)

Next ==
    \/ \E c \in Callers : ReadActive(c) \/ DatabaseFails(c)
    \/ CheckStep \/ LoadFails
    \/ \E i \in Ids : ThreadStep(i)
    \/ \E v \in Versions : Publish(v)
    \/ Restart

Spec == Init /\ [][Next]_vars

\* A call of reload_if_changed and a validation thread run to their ends, the
\* service is started, and the polling task gets its turn in the event loop
\* also when the endpoint is called again and again.
Fairness ==
    /\ WF_vars(CheckStep)
    /\ WF_vars(ReadActive("startup"))
    /\ SF_vars(ReadActive("poll"))
    /\ \A i \in Ids : WF_vars(ThreadStep(i))

FairSpec == Spec /\ Fairness

-----------------------------------------------------------------------------
(* Properties.                                                             *)

\* A loaded model is replaced only by one that passed its validation against
\* exactly the model it replaces, however reloads, rollbacks and validation
\* threads overlap.
SwitchIsValidated ==
    [][model # None /\ model' \notin {None, model} =>
        \E i \in Ids : /\ thread[i].step = "passed"
                       /\ thread[i].base = model
                       /\ thread[i].candidate = model']_vars

\* The current metadata name the current model, but for the moment in which
\* one thread switches both; that thread's validation is then the pending one.
MetadataNameModel ==
    \A i \in Ids : IF Unlocked THEN metadata = model
                   ELSE thread[i].step = "activated" =>
                            /\ pending.id = i
                            /\ model = thread[i].candidate

\* No validation stays pending: every error path clears it.
ValidationSettles ==
    \A i \in Ids : pending.id = i ~> pending.id # i

\* If the active version stays, and passes its validation, the service ends
\* with it, also after a rollback during a validation, failed loads and
\* restarts, unless its polling task has ended.
Converges ==
    \A v \in Approved :
        <>[](active = v) => <>[](metadata = v) \/ <>[](phase = "unpolled")

-----------------------------------------------------------------------------
(* What the documentation says and the code does not do.                   *)

\* model_reload_task: "Continues polling even if one check fails".
PollingContinues == phase # "unpolled"

\* "cold-load recovery (self-healing after transient failures)": with the
\* model back, the service can generate signals.
RecoveryServes == model # None ~> generator \/ phase = "starting"
===============================================================================
