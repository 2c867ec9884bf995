------------------------- MODULE OrphanReconciliation -------------------------
(***************************************************************************)
(* Startup gate, periodic reconciliation runs and orphan orders of the     *)
(* execution gateway, for one symbol: ReconciliationState and              *)
(* ReconciliationService (reconciliation/state.py, service.py), orphan     *)
(* detection and quarantine (orphans.py), the operator's endpoints         *)
(* (routes/reconciliation.py) and the two checks of a submission that use  *)
(* them (routes/orders.py).  What a run does to the rows of known orders   *)
(* is OrderLifecycle's.                                                    *)
(*                                                                         *)
(* A run is a thread: other orders arrive and end at the broker between    *)
(* its calls.  The high-water mark is a time; the model keeps the set of   *)
(* orders created before it by more than the overlap, which a listing of   *)
(* recent orders leaves out.                                               *)
(***************************************************************************)
EXTENDS FiniteSets, Naturals

CONSTANTS
    Own,            \* orders submitted through the gateway
    Replacements,   \* orders the broker creates for a modification
    Foreign,        \* orders placed at the broker by others
    None,           \* no order
    MaxFaults,      \* bound on failed calls and incomplete listings
    MaxCrashes      \* bound on restarts

ASSUME IdsAssumption ==
    /\ Own \intersect Replacements = {}
    /\ (Own \union Replacements) \intersect Foreign = {}
    /\ None \notin Own \union Replacements \union Foreign
ASSUME RunBoundsAssumption == MaxFaults \in Nat /\ MaxCrashes \in Nat

Ids == Own \union Replacements \union Foreign

VARIABLES
    created,        \* orders the broker has got so far
    open,           \* those that still work
    rows,           \* orders with a row in orders
    marked,         \* is there a high-water mark?
    old,            \* orders created before the mark less the overlap
    orphans,        \* rows of orphan_orders
    resolved,       \* those with resolved_at
    quarantined,    \* the symbol's quarantine key in Redis
    gate,           \* _startup_complete
    override,       \* _override_active
    attempted,      \* is there a _last_reconciliation_result?
    serving,        \* has run_startup_reconciliation returned?
    loop,           \* does run_periodic_loop still run?
    client,         \* did the process reach Redis when it started?  If not, its
                    \* redis_client is None for good
    run,            \* the reconciliation run that holds the lock
    faults, crashes,
    atStart,        \* history: foreign orders the broker had at the start
    unlisted,       \* history: foreign orders that ended before the first mark
    missed          \* history: foreign orders a run that ended well left out
                    \* because a listing did

brokerVars == <<created, open>>
dbVars == <<rows, marked, old, orphans, resolved>>
stateVars == <<gate, override, attempted, serving, loop, client>>
historyVars == <<atStart, unlisted, missed>>
vars == <<brokerVars, dbVars, quarantined, stateVars, run, faults, crashes, historyVars>>

NoRun == [step |-> "idle", begun |-> {}, open |-> {}, recent |-> {}, over |-> {}, missed |-> {},
          at |-> None]

TypeOK ==
    /\ created \subseteq Ids
    /\ open \subseteq created
    /\ rows \subseteq Own \union Replacements
    /\ marked \in BOOLEAN
    /\ old \subseteq created
    /\ orphans \subseteq created
    /\ resolved \subseteq orphans
    /\ quarantined \in BOOLEAN
    /\ gate \in BOOLEAN /\ override \in BOOLEAN /\ attempted \in BOOLEAN
    /\ serving \in BOOLEAN /\ loop \in BOOLEAN /\ client \in BOOLEAN
    /\ run \in [step : {"idle", "open", "recent", "known", "handle"},
                begun : SUBSET created, open : SUBSET created, recent : SUBSET created,
                over : SUBSET created, missed : SUBSET (created \intersect Foreign), at : created \union {None}]
    /\ faults \in 0 .. MaxFaults
    /\ crashes \in 0 .. MaxCrashes
    /\ atStart \subseteq created \intersect Foreign
    /\ unlisted \subseteq created \intersect Foreign
    /\ missed \subseteq created \intersect Foreign

\* A first deployment, or one with a mark from earlier runs.  (Starts without
\* Redis are Restart's.)
Init ==
    /\ created = {} /\ open = {} /\ rows = {}
    /\ marked \in BOOLEAN
    /\ old = {} /\ orphans = {} /\ resolved = {}
    /\ quarantined = FALSE
    /\ gate = FALSE /\ override = FALSE /\ attempted = FALSE
    /\ serving = FALSE /\ loop = TRUE /\ client = TRUE
    /\ run = NoRun
    /\ faults = 0 /\ crashes = 0
    /\ atStart = {} /\ unlisted = {} /\ missed = {}

Fault == faults < MaxFaults /\ faults' = faults + 1

-----------------------------------------------------------------------------
(* The broker and the gateway's own orders.                                *)

Create(o) ==
    /\ o \notin created
    /\ created' = created \union {o}
    /\ open' = open \union {o}

\* Someone else trades in the account.
PlaceForeign(f) ==
    /\ Create(f)
    /\ UNCHANGED <<dbVars, quarantined, stateVars, run, faults, crashes, historyVars>>

\* Such an order is filled, canceled or expires.  (The ends of the gateway's
\* own orders are OrderLifecycle's.)
EndForeign(f) ==
    /\ f \in open
    /\ open' = open \ {f}
    /\ unlisted' = IF marked \/ f \in orphans THEN unlisted ELSE unlisted \union {f}
    /\ UNCHANGED <<created, dbVars, quarantined, stateVars, run, faults, crashes, atStart,
                   missed>>

\* submit_order: _check_quarantine, refused without Redis, then the startup gate, which lets an order
\* that reduces the position through, then the order's row ...
StoreOrder(o) ==
    /\ serving
    /\ client /\ ~quarantined
    /\ o \notin rows
    /\ rows' = rows \union {o}
    /\ UNCHANGED <<brokerVars, marked, old, orphans, resolved, quarantined, stateVars, run,
                   faults, crashes, historyVars>>

\* ... and only then the broker.
PlaceOrder(o) ==
    /\ serving
    /\ o \in rows
    /\ Create(o)
    /\ UNCHANGED <<dbVars, quarantined, stateVars, run, faults, crashes, historyVars>>

\* modify_order: the broker first ...
ReplaceOrder(o) ==
    /\ serving
    /\ Create(o)
    /\ UNCHANGED <<dbVars, quarantined, stateVars, run, faults, crashes, historyVars>>

\* ... then the replacement's row, or later by reconciliation.
StoreReplacement(o) ==
    /\ o \in created \ rows
    /\ rows' = rows \union {o}
    /\ UNCHANGED <<brokerVars, marked, old, orphans, resolved, quarantined, stateVars, run,
                   faults, crashes, historyVars>>

-----------------------------------------------------------------------------
(* A run: _run_reconciliation under the service's lock.                    *)

\* The startup run, or, when the gateway serves, one of the loop or of
\* POST /reconciliation/run.
Begin ==
    /\ run.step = "idle"
    /\ run' = [NoRun EXCEPT !.step = "open", !.begun = created]
    /\ UNCHANGED <<brokerVars, dbVars, quarantined, stateVars, faults, crashes, historyVars>>

\* alpaca_client.get_orders reads pages of 500 by creation time; the next page
\* begins after the last order's time, so it leaves out others of that same time.
\* (A row of the gateway's own that was left out is looked up by itself.)
Skips(left) == IF left = {} THEN UNCHANGED faults ELSE Fault

ListOpen ==
    /\ run.step = "open"
    /\ \E left \in SUBSET (open \intersect Foreign) :
        /\ run' = [run EXCEPT !.step = "recent", !.open = open \ left, !.missed = left]
        /\ Skips(left)
    /\ UNCHANGED <<brokerVars, dbVars, quarantined, stateVars, crashes, historyVars>>

\* Without a mark no recent orders are listed.
ListRecent ==
    /\ run.step = "recent"
    /\ LET listed == IF marked THEN created \ old ELSE {}
       IN \E left \in SUBSET (listed \intersect Foreign) :
           /\ run' = [run EXCEPT !.step = "known",
                                 !.recent = listed \ left,
                                 !.over = listed \ (left \union open),
                                 !.missed = @ \union left]
           /\ Skips(left)
    /\ UNCHANGED <<brokerVars, dbVars, quarantined, stateVars, crashes, historyVars>>

\* Mutant: the known ids are those of orders placed before the run.
ReadKnownEarly ==
    /\ run.step = "known"
    /\ LET known == rows \intersect run.begun
       IN run' = [run EXCEPT !.step = "handle", !.open = @ \ known, !.recent = @ \ known,
                             !.over = @ \ known]
    /\ UNCHANGED <<brokerVars, dbVars, quarantined, stateVars, faults, crashes, historyVars>>

\* get_order_ids_by_client_ids: what is left is detect_orphans' work.
ReadKnown ==
    /\ run.step = "known"
    /\ run' = [run EXCEPT !.step = "handle", !.open = @ \ rows, !.recent = @ \ rows,
                          !.over = @ \ rows]
    /\ UNCHANGED <<brokerVars, dbVars, quarantined, stateVars, faults, crashes, historyVars>>

\* The next order of detect_orphans: the open ones, then the recent ones.
NextOrphan(f) ==
    /\ run.step = "handle"
    /\ run.at = None
    /\ f \in run.open \/ (run.open = {} /\ f \in run.recent)

\* The order is taken off its list.
Taken(f) ==
    [run EXCEPT !.at = f, !.open = @ \ {f}, !.recent = IF f \in run.open THEN @ ELSE @ \ {f}]

\* Mutant: an orphan that has a row already is skipped.
RecordOrphanOnce(f) ==
    /\ NextOrphan(f)
    /\ orphans' = orphans \union {f}
    /\ resolved' = IF f \notin run.open /\ f \in run.over THEN resolved \union {f} ELSE resolved
    /\ run' = IF f \in orphans THEN [Taken(f) EXCEPT !.at = None] ELSE Taken(f)
    /\ UNCHANGED <<brokerVars, rows, marked, old, quarantined, stateVars, faults, crashes, historyVars>>

\* handle_orphan_order: the orphan's row, resolved if it was listed among the
\* recent orders with a terminal status ...
RecordOrphan(f) ==
    /\ NextOrphan(f)
    /\ orphans' = orphans \union {f}
    /\ resolved' = IF f \notin run.open /\ f \in run.over THEN resolved \union {f} ELSE resolved
    /\ run' = Taken(f)
    /\ UNCHANGED <<brokerVars, rows, marked, old, quarantined, stateVars, faults, crashes, historyVars>>

Unresolved == orphans \ resolved

\* ... then Redis: set_quarantine, which does nothing without a client and whose
\* error is logged and forgotten.  (The cache sync_orphan_exposure writes after it
\* has no reader.)
Shield ==
    /\ run.at # None
    /\ run' = [run EXCEPT !.at = None]
    /\ \/ client /\ quarantined' = TRUE /\ UNCHANGED faults
       \/ ~client /\ UNCHANGED <<quarantined, faults>>
       \/ client /\ Fault /\ UNCHANGED quarantined
    /\ UNCHANGED <<brokerVars, dbVars, stateVars, crashes, historyVars>>

\* set_reconciliation_high_water_mark: the new mark is a time; the overlap
\* keeps some of the orders before it in the next listing.
AdvanceMark(before) ==
    /\ marked' = TRUE
    /\ old' \in {e \in SUBSET before : old \subseteq e}

Over ==
    /\ run.step = "handle"
    /\ run.open = {} /\ run.recent = {} /\ run.at = None

\* Mutant: the mark is the time the run ended.
EndRunNow ==
    /\ Over
    /\ AdvanceMark(created)
    /\ run' = NoRun
    /\ attempted' = TRUE /\ gate' = TRUE /\ serving' = TRUE
    /\ missed' = missed \union (run.missed \ orphans)
    /\ UNCHANGED <<brokerVars, rows, orphans, resolved, quarantined, override, loop, client, faults,
                   crashes, atStart, unlisted>>

\* Mutant: only the startup run opens the gate.
EndRunQuietly ==
    /\ Over
    /\ AdvanceMark(run.begun)
    /\ run' = NoRun
    /\ attempted' = TRUE /\ gate' = (gate \/ ~serving) /\ serving' = TRUE
    /\ missed' = missed \union (run.missed \ orphans)
    /\ UNCHANGED <<brokerVars, rows, orphans, resolved, quarantined, override, loop, client, faults,
                   crashes, atStart, unlisted>>

\* The run ends well: the mark moves to the time it began, the result is
\* recorded and the gate opens.
EndRun ==
    /\ Over
    /\ AdvanceMark(run.begun)
    /\ run' = NoRun
    /\ attempted' = TRUE /\ gate' = TRUE /\ serving' = TRUE
    /\ missed' = missed \union (run.missed \ orphans)
    /\ UNCHANGED <<brokerVars, rows, orphans, resolved, quarantined, override, loop, client, faults,
                   crashes, atStart, unlisted>>

\* Mutant: the gateway opens the gate once the startup run is over.
FailRunOpen ==
    /\ run.step # "idle"
    /\ Fault
    /\ run' = NoRun
    /\ attempted' = TRUE /\ serving' = TRUE /\ gate' = TRUE
    /\ UNCHANGED <<brokerVars, dbVars, quarantined, override, loop, client, crashes, historyVars>>

\* A call raises.  At startup the failure is recorded; the loop goes on with
\* the next interval, unless the run was its own and the error is of a kind it
\* does not catch.
FailRun ==
    /\ run.step # "idle"
    /\ Fault
    /\ run' = NoRun
    /\ attempted' = (attempted \/ ~serving)
    /\ serving' = TRUE
    /\ loop' \in IF serving THEN {loop, FALSE} ELSE {loop}
    /\ UNCHANGED <<brokerVars, dbVars, quarantined, gate, override, client, crashes, historyVars>>

\* POST /reconciliation/force-complete, refused before a first result.
ForceComplete ==
    /\ serving
    /\ attempted
    /\ ~override
    /\ override' = TRUE
    /\ gate' = TRUE
    /\ UNCHANGED <<brokerVars, dbVars, quarantined, attempted, serving, loop, client, run, faults, crashes,
                   historyVars>>

\* The process stops and starts again, with a Redis client if it reaches Redis.
Restart ==
    /\ crashes < MaxCrashes
    /\ crashes' = crashes + 1
    /\ gate' = FALSE /\ override' = FALSE /\ attempted' = FALSE
    /\ serving' = FALSE /\ loop' = TRUE
    /\ \/ client' = TRUE /\ UNCHANGED faults
       \/ client' = FALSE /\ Fault
    /\ run' = NoRun
    /\ atStart' = created \intersect Foreign
    /\ UNCHANGED <<brokerVars, dbVars, quarantined, unlisted, missed>>

-----------------------------------------------------------------------------

RunStep ==
    \/ ListOpen \/ ListRecent \/ ReadKnown \/ Shield \/ EndRun
    \/ \E f \in Ids : RecordOrphan(f)

Next ==
    \/ \E f \in Foreign : PlaceForeign(f)
    \/ \E f \in Foreign : EndForeign(f)
    \/ \E o \in Own : StoreOrder(o) \/ PlaceOrder(o)
    \/ \E o \in Replacements : ReplaceOrder(o) \/ StoreReplacement(o)
    \/ Begin \/ RunStep \/ FailRun \/ ForceComplete \/ Restart

Spec == Init /\ [][Next]_vars

\* The startup run is part of the start; the loop sleeps for a bounded time
\* between runs, and a run that began ends.
Fairness ==
    /\ WF_vars((serving => loop) /\ Begin)
    /\ WF_vars(RunStep)

FairSpec == Spec /\ Fairness

-----------------------------------------------------------------------------
(* Properties.                                                             *)

\* An order the gateway submitted is never taken for an orphan: its row is
\* written before the broker sees it and the rows are read after the broker
\* is asked.
OwnOrderIsKnown == orphans \intersect Own = {}

\* What the mark excludes from the next listing has been recorded: a failed or
\* interrupted run never moves it past an orphan.  Not so the orders that ended
\* before the first mark, which are never listed, and those a page boundary hid
\* from the run that moved the mark.
MarkLeavesNothingOut == old \intersect Foreign \subseteq orphans \union unlisted \union missed

\* Unless an operator forced it, an open gate means that every foreign order
\* the broker had when the process started is recorded, with the same exceptions.
GateMeansReconciled ==
    gate /\ ~override => atStart \subseteq orphans \union unlisted \union missed

\* A foreign order that stays open ends up with its symbol in quarantine, also
\* when calls to Redis or whole runs fail, as long as the loop lives, the process
\* has a Redis client, and no page boundary hides the order.
OpenOrphanQuarantined ==
    \A f \in Foreign :
        f \in open ~> (f \notin open \/ quarantined \/ ~loop \/ ~client \/ f \in missed)

\* After every start the gate opens and what the broker had is recorded in
\* the end, also when the gate was forced before that.
CatchesUp ==
    []<>(~loop \/ (gate /\ atStart \subseteq orphans \union unlisted \union missed))

-----------------------------------------------------------------------------
(* What the documentation says and the code does not do.                   *)

\* "a failed WRITE here doesn't create a safety gap": between runs an
\* unresolved orphan blocks its symbol.
OrphanBlocks == run.step = "idle" /\ Unresolved # {} => quarantined

\* get_orders is best-effort, "reconciliation will catch any missed orders later":
\* an order that a page boundary hid is recorded before it is over and behind the
\* mark, where no listing finds it any more.
MissedIsCaughtLater == (old \intersect missed) \ open \subseteq orphans

\* Orphans are "not tracked in our database": a replacement is not one.
ReplacementIsKnown == orphans \intersect Replacements = {}
===============================================================================
