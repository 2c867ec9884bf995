----------------------------- MODULE ModifyOrder ------------------------------
(***************************************************************************)
(* The modification of one working order (modify_order and its helpers in  *)
(* apps/execution_gateway/routes/orders.py): an entry of                   *)
(* order_modifications is inserted as pending under the row's lock, extra  *)
(* exposure is reserved, the broker replaces the order, and one            *)
(* transaction records the result.  What a crash or a failed write leaves  *)
(* pending is settled by reconciliation (reconciliation/modifications.py). *)
(*                                                                         *)
(* The row's lock is held for the inserting transaction only; from there   *)
(* on handlers of different keys run side by side.  The broker replaces an *)
(* order only while it works.                                              *)
(***************************************************************************)
EXTENDS Naturals

CONSTANTS
    Keys,           \* idempotency keys
    Requests,       \* requests, the repeated ones included
    KeyOf,          \* the key each request carries
    Increases,      \* keys whose modification raises the quantity
    Reducing,       \* keys whose modification is strictly risk-reducing
    None,           \* no key
    MaxFaults,      \* bound on errors, crashes and switches of the halt
    LostReplies     \* may the broker's answer to a replace be lost?

ASSUME KeysAssumption ==
    /\ KeyOf \in [Requests -> Keys]
    /\ Increases \subseteq Keys
    /\ Reducing \subseteq Keys \ Increases
    /\ None \notin Keys
ASSUME ModifyBoundAssumption == MaxFaults \in Nat
ASSUME ModifyFaultsAssumption == LostReplies \in BOOLEAN

VARIABLES
    handler,        \* the step each request is at
    entry,          \* status of each key's row in order_modifications
    original,       \* status of the original's row in orders
    replacements,   \* keys whose replacement has a row in orders
    effect,         \* replacements the broker knows
    works,          \* does the original work at the broker?
    covered,        \* keys whose extra exposure is reserved
    halted,         \* kill switch engaged or breaker tripped
    looked,         \* reconciliation: the key it looked up, and what it found
    faults,
    unheard         \* history: keys whose answer from the broker was lost

dbVars == <<entry, original, replacements>>
brokerVars == <<effect, works>>
vars == <<handler, dbVars, brokerVars, covered, halted, looked, faults, unheard>>

EntryStatuses == {"none", "pending", "completed", "failed", "submitted_unconfirmed"}
Steps == {"idle", "lock", "reserve", "replace", "finalize"}
NotLooking == [key |-> None, found |-> FALSE]

TypeOK ==
    /\ handler \in [Requests -> Steps]
    /\ entry \in [Keys -> EntryStatuses]
    /\ original \in {"accepted", "filled", "replaced"}
    /\ replacements \subseteq Keys
    /\ effect \subseteq Keys
    /\ works \in BOOLEAN
    /\ covered \subseteq Increases
    /\ halted \in BOOLEAN
    /\ looked \in [key : Keys \union {None}, found : BOOLEAN]
    /\ faults \in 0 .. MaxFaults
    /\ unheard \subseteq Keys

Init ==
    /\ handler = [r \in Requests |-> "idle"]
    /\ entry = [k \in Keys |-> "none"]
    /\ original = "accepted"
    /\ replacements = {}
    /\ effect = {}
    /\ works = TRUE
    /\ covered = {}
    /\ halted = FALSE
    /\ looked = NotLooking
    /\ faults = 0
    /\ unheard = {}

Goto(r, step) == handler' = [handler EXCEPT ![r] = step]
SetEntry(k, status) == entry' = [entry EXCEPT ![k] = status]
Fault == faults < MaxFaults /\ faults' = faults + 1
NoFault == UNCHANGED faults

-----------------------------------------------------------------------------
(* modify_order.                                                           *)

\* The validation phase: the safety gates and the order's status.  A key
\* that has an entry is answered from it.
Validate(r) ==
    /\ handler[r] = "idle"
    /\ entry[KeyOf[r]] = "none"
    /\ halted => KeyOf[r] \in Reducing
    /\ original = "accepted"
    /\ Goto(r, "lock")
    /\ UNCHANGED <<dbVars, brokerVars, covered, halted, looked, faults, unheard>>

\* Phase 1, _acquire_modification_lock: one transaction.  A request whose key
\* got an entry meanwhile is answered from it.
Insert(r) ==
    /\ handler[r] = "lock"
    /\ IF entry[KeyOf[r]] = "none"
       THEN SetEntry(KeyOf[r], "pending") /\ Goto(r, "reserve")
       ELSE UNCHANGED entry /\ Goto(r, "idle")
    /\ UNCHANGED <<original, replacements, brokerVars, covered, halted, looked, faults, unheard>>

\* Another transaction holds the row (NOWAIT): 409.
Busy(r) ==
    /\ handler[r] = "lock"
    /\ \E q \in Requests \ {r} : handler[q] \in {"lock", "finalize"}
    /\ Goto(r, "idle")
    /\ UNCHANGED <<dbVars, brokerVars, covered, halted, looked, faults, unheard>>

\* An entry is marked failed; the write itself may fail.
Refuse(k) ==
    \/ SetEntry(k, "failed") /\ NoFault
    \/ UNCHANGED entry /\ Fault

\* _reserve_modify_delta: a larger quantity reserves the difference, and is
\* refused when the limit does not allow it; so is any modification when
\* there is no broker client.
Reserve(r) ==
    /\ handler[r] = "reserve"
    /\ \/ /\ covered' = IF KeyOf[r] \in Increases THEN covered \union {KeyOf[r]} ELSE covered
          /\ Goto(r, "replace")
          /\ UNCHANGED <<entry, faults>>
       \/ /\ Refuse(KeyOf[r])
          /\ Goto(r, "idle")
          /\ UNCHANGED covered
    /\ UNCHANGED <<original, replacements, brokerVars, halted, looked, unheard>>

\* Phase 2, _call_broker_replace: the broker replaces the order ...
Replace(r) ==
    /\ handler[r] = "replace"
    /\ works
    /\ effect' = effect \union {KeyOf[r]}
    /\ works' = FALSE
    /\ Goto(r, "finalize")
    /\ UNCHANGED <<dbVars, covered, halted, looked, faults, unheard>>

\* ... or refuses, or is not reached: the reservation is released first, and
\* an error of that call leaves both as they are.
ReplaceFails(r) ==
    /\ handler[r] = "replace"
    /\ \/ covered' = covered \ {KeyOf[r]} /\ Refuse(KeyOf[r])
       \/ UNCHANGED <<covered, entry>> /\ Fault
    /\ Goto(r, "idle")
    /\ UNCHANGED <<original, replacements, brokerVars, halted, looked, unheard>>

\* The broker replaces the order and its answer is lost: to the handler the
\* call failed.
ReplyLost(r) ==
    /\ LostReplies
    /\ handler[r] = "replace"
    /\ works
    /\ effect' = effect \union {KeyOf[r]}
    /\ works' = FALSE
    /\ \/ /\ covered' = covered \ {KeyOf[r]}
          /\ SetEntry(KeyOf[r], "failed") \/ UNCHANGED entry
       \/ UNCHANGED <<covered, entry>>
    /\ unheard' = unheard \union {KeyOf[r]}
    /\ Fault
    /\ Goto(r, "idle")
    /\ UNCHANGED <<original, replacements, halted, looked>>

\* The transaction of phase 3 and of reconciliation.
Complete(k) ==
    /\ SetEntry(k, "completed")
    /\ original' = "replaced"
    /\ replacements' = replacements \union {k}

\* Mutant: the entry is completed before the replacement's row is written.
FinalizeInParts(r) ==
    /\ handler[r] = "finalize"
    /\ \/ Complete(KeyOf[r]) /\ NoFault
       \/ /\ SetEntry(KeyOf[r], "completed")
          /\ Fault
          /\ UNCHANGED <<original, replacements>>
    /\ Goto(r, "idle")
    /\ UNCHANGED <<brokerVars, covered, halted, looked, unheard>>

\* Mutant: a transaction that fails gives the reservation back.
FinalizeReleases(r) ==
    /\ handler[r] = "finalize"
    /\ \/ Complete(KeyOf[r]) /\ NoFault /\ UNCHANGED covered
       \/ UNCHANGED dbVars /\ Fault /\ covered' = covered \ {KeyOf[r]}
    /\ Goto(r, "idle")
    /\ UNCHANGED <<brokerVars, halted, looked, unheard>>

\* Phase 3, _finalize_modification_in_db: when the transaction fails the
\* entry becomes submitted_unconfirmed, if that can still be written.
Finalize(r) ==
    /\ handler[r] = "finalize"
    /\ \/ Complete(KeyOf[r]) /\ NoFault
       \/ /\ SetEntry(KeyOf[r], "submitted_unconfirmed")
          /\ Fault
          /\ UNCHANGED <<original, replacements>>
       \/ UNCHANGED dbVars /\ Fault
    /\ Goto(r, "idle")
    /\ UNCHANGED <<brokerVars, covered, halted, looked, unheard>>

-----------------------------------------------------------------------------
(* Reconciliation, the order's own life, and failures.                     *)

InFlight(k) == \E r \in Requests : KeyOf[r] = k /\ handler[r] \in {"reserve", "replace", "finalize"}

\* Mutant: entries that are not yet stale are taken up as well.
LookUpFresh(k) ==
    /\ looked.key = None
    /\ entry[k] = "pending"
    /\ looked' = [key |-> k, found |-> k \in effect]
    /\ UNCHANGED <<handler, dbVars, brokerVars, covered, halted, faults, unheard>>

\* Mutant: an entry the broker does not know is left alone.
LookUpKnown(k) ==
    /\ looked.key = None
    /\ entry[k] = "pending"
    /\ ~InFlight(k)
    /\ k \in effect
    /\ looked' = [key |-> k, found |-> TRUE]
    /\ UNCHANGED <<handler, dbVars, brokerVars, covered, halted, faults, unheard>>

\* reconcile_pending_modifications: an entry that is pending for longer than
\* stale_after, which a handler's calls do not last, is looked up at the
\* broker under the replacement's client_order_id.
LookUp(k) ==
    /\ looked.key = None
    /\ entry[k] = "pending"
    /\ ~InFlight(k)
    /\ looked' = [key |-> k, found |-> k \in effect]
    /\ UNCHANGED <<handler, dbVars, brokerVars, covered, halted, faults, unheard>>

\* Its entry is completed, or failed if the broker does not know it.
Settle ==
    /\ looked.key # None
    /\ \/ looked.found /\ Complete(looked.key)
       \/ /\ ~looked.found
          /\ SetEntry(looked.key, "failed")
          /\ UNCHANGED <<original, replacements>>
    /\ looked' = NotLooking
    /\ UNCHANGED <<handler, brokerVars, covered, halted, faults, unheard>>

\* The original is filled or canceled at the broker.
Finish ==
    /\ works
    /\ works' = FALSE
    /\ UNCHANGED <<handler, dbVars, effect, covered, halted, looked, faults, unheard>>

\* A webhook or reconciliation reports the original's end.
Report ==
    /\ original = "accepted"
    /\ ~works
    /\ original' = IF effect = {} THEN "filled" ELSE "replaced"
    /\ UNCHANGED <<handler, entry, replacements, brokerVars, covered, halted, looked, faults, unheard>>

\* The process stops; the table and Redis keep what was written.
Crash ==
    /\ Fault
    /\ handler' = [r \in Requests |-> "idle"]
    /\ looked' = NotLooking
    /\ UNCHANGED <<dbVars, brokerVars, covered, halted, unheard>>

SwitchHalt ==
    /\ Fault
    /\ halted' = ~halted
    /\ UNCHANGED <<handler, dbVars, brokerVars, covered, looked, unheard>>

-----------------------------------------------------------------------------

HandlerStep(r) == Insert(r) \/ Busy(r) \/ Reserve(r) \/ Replace(r) \/ ReplaceFails(r) \/ Finalize(r)

Next ==
    \/ \E r \in Requests : Validate(r) \/ HandlerStep(r) \/ ReplyLost(r)
    \/ \E k \in Keys : LookUp(k)
    \/ Settle \/ Finish \/ Report \/ Crash \/ SwitchHalt

Spec == Init /\ [][Next]_vars

\* A handler that started runs to its end unless the process stops, and the
\* periodic reconciliation takes up every stale entry.
Fairness ==
    /\ \A r \in Requests : WF_vars(HandlerStep(r))
    /\ \A k \in Keys : SF_vars(LookUp(k))
    /\ WF_vars(Settle)

FairSpec == Spec /\ Fairness

-----------------------------------------------------------------------------
(* Properties.                                                             *)

\* What is reported for each key.  A key whose answer from the broker was lost
\* counts as one without a report, although its entry may say failed.
Reported ==
    [k \in Keys |->
        IF entry[k] = "completed" THEN "done"
        ELSE IF entry[k] = "failed" /\ k \notin unheard THEN "failed"
        ELSE "open"]

Promise == INSTANCE AtomicReplace WITH outcome <- Reported

\* The handler, crashes, failed writes and reconciliation together implement
\* the promise: what is reported as failed never took effect, what took
\* effect is never reported as failed, and no answer is taken back.
ImplementsPromise == Promise!Spec

\* A completed modification and its replacement's row come together, and the
\* original's row says replaced.
CompletedIsRecorded ==
    \A k \in Keys : /\ entry[k] = "completed" <=> k \in replacements
                    /\ entry[k] = "completed" => original = "replaced"

\* The extra exposure of a replacement at the broker stays reserved, unless
\* the broker's answer was lost.
ReplacementCovered == (effect \ unheard) \intersect Increases \subseteq covered

\* No entry stays pending: its handler or reconciliation settles it.
PendingSettles ==
    \A k \in Keys : entry[k] = "pending" ~> entry[k] # "pending"

-----------------------------------------------------------------------------
(* What the documentation says and the code does not do.                   *)

\* "Consistent state even if finalization fails (reconciliation can recover)":
\* a replacement the broker accepted gets its row in the end.
UnconfirmedHeals ==
    \A k \in Keys : entry[k] = "submitted_unconfirmed" ~> k \in replacements

\* "only one modification at a time per order".
OneAtATime ==
    \A k, l \in Keys : entry[k] = "pending" /\ entry[l] = "pending" => k = l
===============================================================================
