-------------------------- MODULE ModifyOrderProofs ---------------------------
(***************************************************************************)
(* The modification of an order, for any number of keys, requests, crashes *)
(* and failed writes: the handlers and reconciliation implement            *)
(* AtomicReplace, and the tables and the reservation agree with what was   *)
(* done at the broker.                                                     *)
(***************************************************************************)
EXTENDS ModifyOrder, TLAPS

\* The initial state is well typed.
LEMMA TypeInit == Init => TypeOK
<1> SUFFICES ASSUME Init PROVE TypeOK
  OBVIOUS
<1>1. /\ handler \in [Requests -> Steps]
      /\ entry \in [Keys -> EntryStatuses]
      /\ faults \in 0 .. MaxFaults
  BY ModifyBoundAssumption DEF Init, Steps, EntryStatuses
<1>2. works \in BOOLEAN /\ halted \in BOOLEAN
  BY DEF Init
<1>3. looked \in [key : Keys \union {None}, found : BOOLEAN]
  BY DEF Init, NotLooking
<1> QED
  BY <1>1, <1>2, <1>3 DEF Init, TypeOK

\* The variables keep their types.
LEMMA TypeStep == TypeOK /\ [Next]_vars => TypeOK'
<1> SUFFICES ASSUME TypeOK, [Next]_vars PROVE TypeOK'
  OBVIOUS
<1> USE KeysAssumption, ModifyBoundAssumption
        DEF TypeOK, Steps, EntryStatuses, Goto, SetEntry, Fault, NoFault, dbVars, brokerVars
<1>1. CASE UNCHANGED vars
  BY <1>1 DEF vars
<1>2. ASSUME NEW r \in Requests, Validate(r) \/ HandlerStep(r) \/ ReplyLost(r)
      PROVE  TypeOK'
  <2>1. CASE Validate(r)
    BY <2>1 DEF Validate
  <2>2. CASE Insert(r)
    BY <2>2 DEF Insert
  <2>3. CASE Busy(r)
    BY <2>3 DEF Busy
  <2>4. CASE Reserve(r)
    BY <2>4 DEF Reserve, Refuse
  <2>5. CASE Replace(r)
    <3>a. effect' = effect \union {KeyOf[r]} /\ works' = FALSE
      BY <2>5 DEF Replace
    <3>b. KeyOf[r] \in Keys
      OBVIOUS
    <3>1. effect' \subseteq Keys /\ works' \in BOOLEAN
      BY ONLY <3>a, <3>b, effect \subseteq Keys
    <3>2. handler' \in [Requests -> Steps]
      BY <2>5 DEF Replace
    <3> QED
      BY <2>5, <3>1, <3>2 DEF Replace
  <2>6. CASE ReplaceFails(r)
    BY <2>6 DEF ReplaceFails, Refuse
  <2>7. CASE Finalize(r)
    BY <2>7 DEF Finalize, Complete
  <2>8. CASE ReplyLost(r)
    <3>a. effect' = effect \union {KeyOf[r]} /\ works' = FALSE
      BY <2>8 DEF ReplyLost
    <3>b. KeyOf[r] \in Keys
      OBVIOUS
    <3>1. effect' \subseteq Keys /\ works' \in BOOLEAN
      BY ONLY <3>a, <3>b, effect \subseteq Keys
    <3>2. handler' \in [Requests -> Steps] /\ entry' \in [Keys -> EntryStatuses]
      BY <2>8 DEF ReplyLost
    <3>3. covered' \subseteq Increases /\ unheard' \subseteq Keys /\ faults' \in 0 .. MaxFaults
      BY <2>8 DEF ReplyLost
    <3> QED
      BY <2>8, <3>1, <3>2, <3>3 DEF ReplyLost
  <2> QED
    BY <1>2, <2>1, <2>2, <2>3, <2>4, <2>5, <2>6, <2>7, <2>8 DEF HandlerStep
<1>3. ASSUME NEW k \in Keys, LookUp(k) PROVE TypeOK'
  BY <1>3 DEF LookUp
<1>4. CASE Settle
  BY <1>4 DEF Settle, Complete, NotLooking
<1>5. CASE Finish
  BY <1>5 DEF Finish
<1>6. CASE Report
  BY <1>6 DEF Report
<1>7. CASE Crash
  BY <1>7 DEF Crash, NotLooking
<1>8. CASE SwitchHalt
  BY <1>8 DEF SwitchHalt
<1> QED
  BY <1>1, <1>2, <1>3, <1>4, <1>5, <1>6, <1>7, <1>8 DEF Next

\* Handlers, reconciliation and faults keep the entries, the rows, the
\* broker's orders and the reservation within their types.
THEOREM ModifyTypeCorrect == Spec => []TypeOK
  BY TypeInit, TypeStep, PTL DEF Spec

-----------------------------------------------------------------------------
(* The inductive invariant.                                                *)

\* The request is between the insertion of its entry and the end.
Active(r) == handler[r] \in {"reserve", "replace", "finalize"}

\* A handler in progress owns its pending entry: no other handler has the
\* key and reconciliation has not taken it up, which is why it may release
\* and refuse, or complete, without looking at the entry again.
HandlerInv ==
    \A r \in Requests : Active(r) =>
        /\ entry[KeyOf[r]] = "pending"
        /\ looked.key # KeyOf[r]
        /\ \A q \in Requests : Active(q) /\ KeyOf[q] = KeyOf[r] => q = r
        /\ KeyOf[r] \in effect <=> handler[r] = "finalize"
        /\ KeyOf[r] \notin unheard
        /\ handler[r] # "reserve" /\ KeyOf[r] \in Increases => KeyOf[r] \in covered

\* What the entries say of the broker.
EntryInv ==
    /\ unheard \subseteq effect
    /\ \A k \in Keys : /\ entry[k] = "none" => k \notin effect
                       /\ entry[k] = "failed" => k \notin effect \/ k \in unheard
                       /\ entry[k] = "completed" => k \in effect

\* What reconciliation read is still true when it writes.
LookedInv ==
    looked.key # None => /\ entry[looked.key] = "pending"
                         /\ looked.found <=> looked.key \in effect

Inv ==
    /\ HandlerInv
    /\ EntryInv
    /\ LookedInv
    /\ works => effect = {}
    /\ CompletedIsRecorded
    /\ ReplacementCovered

\* The invariant holds at first.
LEMMA InvInit == Init => Inv
<1> SUFFICES ASSUME Init PROVE Inv
  OBVIOUS
<1>1. HandlerInv
  BY DEF Init, HandlerInv, Active
<1>2. EntryInv /\ (works => effect = {}) /\ CompletedIsRecorded /\ ReplacementCovered
  BY DEF Init, EntryInv, CompletedIsRecorded, ReplacementCovered
<1>3. LookedInv
  BY DEF Init, LookedInv, NotLooking
<1> QED
  BY <1>1, <1>2, <1>3 DEF Inv

\* Every step of a handler, of reconciliation and every fault keeps it.
LEMMA InvStep == TypeOK /\ Inv /\ [Next]_vars => Inv'
<1> SUFFICES ASSUME TypeOK, Inv, [Next]_vars PROVE Inv'
  OBVIOUS
<1> USE KeysAssumption
        DEF TypeOK, Steps, EntryStatuses, Goto, SetEntry, dbVars, brokerVars, Inv,
            HandlerInv, Active, EntryInv, LookedInv, CompletedIsRecorded, ReplacementCovered
<1>1. CASE UNCHANGED vars
  BY <1>1 DEF vars
<1>2. ASSUME NEW r \in Requests, Validate(r) \/ HandlerStep(r) \/ ReplyLost(r)
      PROVE  Inv'
  <2>1. CASE Validate(r)
    BY <2>1 DEF Validate
  <2>2. CASE Insert(r)
    BY <2>2 DEF Insert
  <2>3. CASE Busy(r)
    BY <2>3 DEF Busy
  <2>4. CASE Reserve(r)
    BY <2>4 DEF Reserve, Refuse
  <2>5. CASE Replace(r)
    BY <2>5 DEF Replace
  <2>6. CASE ReplaceFails(r)
    BY <2>6 DEF ReplaceFails, Refuse
  <2>7. CASE Finalize(r)
    BY <2>7 DEF Finalize, Complete
  <2>8. CASE ReplyLost(r)
    BY <2>8 DEF ReplyLost
  <2> QED
    BY <1>2, <2>1, <2>2, <2>3, <2>4, <2>5, <2>6, <2>7, <2>8 DEF HandlerStep
<1>3. ASSUME NEW k \in Keys, LookUp(k) PROVE Inv'
  BY <1>3 DEF LookUp, InFlight
<1>4. CASE Settle
  BY <1>4 DEF Settle, Complete, NotLooking
<1>5. CASE Finish
  BY <1>5 DEF Finish
<1>6. CASE Report
  BY <1>6 DEF Report
<1>7. CASE Crash
  BY <1>7 DEF Crash, NotLooking
<1>8. CASE SwitchHalt
  BY <1>8 DEF SwitchHalt
<1> QED
  BY <1>1, <1>2, <1>3, <1>4, <1>5, <1>6, <1>7, <1>8 DEF Next

\* The invariant holds in every reachable state.
LEMMA InvAlways == Spec => [](TypeOK /\ Inv)
  BY TypeInit, InvInit, TypeStep, InvStep, PTL DEF Spec

\* modify_order's last transaction and reconciliation write the completed
\* entry, the replacement's row and the original's status together, whichever
\* handlers and faults come in between.
THEOREM CompletionIsRecorded == Spec => []CompletedIsRecorded
  BY InvAlways, PTL DEF Inv

\* A replacement that raises the quantity keeps its reservation as long as the
\* broker's answer arrives: no handler releases what another key's
\* replacement or its own completed one needs.
THEOREM ReplacementIsCovered == Spec => []ReplacementCovered
  BY InvAlways, PTL DEF Inv

-----------------------------------------------------------------------------
(* The refinement.                                                         *)

\* A step that only moves entries between none, pending and
\* submitted_unconfirmed reports nothing.
LEMMA SameReport ==
    ASSUME TypeOK, TypeOK',
           \A k \in Keys : \/ entry'[k] = entry[k] /\ (k \in unheard' <=> k \in unheard)
                           \/ /\ entry[k] \notin {"completed", "failed"}
                              /\ \/ entry'[k] \notin {"completed", "failed"}
                                 \/ entry'[k] = "failed" /\ k \in unheard'
    PROVE  Reported' = Reported
<1>1. \A k \in Keys : Reported'[k] = Reported[k]
  BY DEF Reported
<1> QED
  BY <1>1 DEF Reported

\* A pending entry of a modification that took effect is completed.
LEMMA CompletionSucceeds ==
    ASSUME TypeOK, Inv, TypeOK', NEW k \in Keys, k \in effect, entry[k] = "pending",
           Complete(k), UNCHANGED <<effect, unheard>>
    PROVE  Promise!Succeed(k)
<1>1. Reported[k] = "open"
  BY DEF Reported
<1>2. \A l \in Keys : Reported'[l] = IF l = k THEN "done" ELSE Reported[l]
  BY DEF Reported, Complete, SetEntry, TypeOK
<1>3. Reported' = [Reported EXCEPT ![k] = "done"]
  BY <1>2 DEF Reported
<1> QED
  BY <1>1, <1>3 DEF Promise!Succeed

\* A pending entry of a modification that did not take effect is refused.
LEMMA RefusalRefuses ==
    ASSUME TypeOK, Inv, TypeOK', NEW k \in Keys, k \notin effect, entry[k] = "pending",
           SetEntry(k, "failed"), UNCHANGED <<effect, unheard>>
    PROVE  Promise!Refuse(k)
<1>0. k \notin unheard
  BY DEF Inv, EntryInv
<1>1. Reported[k] = "open"
  BY DEF Reported
<1>2. \A l \in Keys : Reported'[l] = IF l = k THEN "failed" ELSE Reported[l]
  BY <1>0 DEF Reported, SetEntry, TypeOK
<1>3. Reported' = [Reported EXCEPT ![k] = "failed"]
  BY <1>2 DEF Reported
<1> QED
  BY <1>1, <1>3 DEF Promise!Refuse

\* The broker replaces the order: whether the handler hears of it or not,
\* this is the one step in which the modification takes effect.
LEMMA ReplaceApplies ==
    ASSUME TypeOK, Inv, TypeOK', NEW r \in Requests, Replace(r) \/ ReplyLost(r)
    PROVE  Promise!Apply(KeyOf[r])
<1>1. effect = {} /\ effect' = {KeyOf[r]}
  BY DEF Replace, ReplyLost, Inv
<1>2. entry[KeyOf[r]] = "pending"
  BY DEF Replace, ReplyLost, Inv, HandlerInv, Active
<1>3. KeyOf[r] \in Keys
  BY KeysAssumption
<1>4. Reported' = Reported
  <2>1. CASE Replace(r)
    BY <2>1, SameReport DEF Replace, dbVars
  <2>2. CASE ReplyLost(r)
    BY <2>2, <1>2, <1>3, SameReport DEF ReplyLost, SetEntry, TypeOK
  <2> QED
    BY <2>1, <2>2
<1> QED
  BY <1>1, <1>2, <1>3, <1>4 DEF Promise!Apply, Reported

\* Every step of the handlers, of reconciliation and every fault is a step of
\* AtomicReplace or leaves the effect and the reports alone.
LEMMA StepKeepsPromise ==
    TypeOK /\ Inv /\ TypeOK' /\ [Next]_vars => [Promise!Next]_<<effect, Reported>>
<1> SUFFICES ASSUME TypeOK, Inv, TypeOK', [Next]_vars
             PROVE  Promise!Next \/ UNCHANGED <<effect, Reported>>
  OBVIOUS
<1> USE KeysAssumption DEF dbVars, brokerVars
<1>0. ASSUME UNCHANGED <<entry, effect, unheard>>
      PROVE  UNCHANGED <<effect, Reported>>
  BY <1>0 DEF Reported
<1>1. CASE UNCHANGED vars
  BY <1>0, <1>1 DEF vars
<1>2. ASSUME NEW r \in Requests, Validate(r) \/ HandlerStep(r) \/ ReplyLost(r)
      PROVE  Promise!Next \/ UNCHANGED <<effect, Reported>>
  <2>k. KeyOf[r] \in Keys
    OBVIOUS
  <2>1. CASE Validate(r) \/ Busy(r)
    BY <1>0, <2>1 DEF Validate, Busy
  <2>2. CASE Insert(r)
    BY <2>2, SameReport DEF Insert, SetEntry, TypeOK
  <2>3. CASE Reserve(r)
    <3>1. /\ entry[KeyOf[r]] = "pending" /\ KeyOf[r] \notin effect
          /\ UNCHANGED <<effect, unheard>>
          /\ UNCHANGED entry \/ SetEntry(KeyOf[r], "failed")
      BY <2>3 DEF Reserve, Refuse, Inv, HandlerInv, Active
    <3> QED
      BY <1>0, <2>k, <3>1, RefusalRefuses DEF Promise!Next
  <2>4. CASE ReplaceFails(r)
    <3>1. /\ entry[KeyOf[r]] = "pending" /\ KeyOf[r] \notin effect
          /\ UNCHANGED <<effect, unheard>>
          /\ UNCHANGED entry \/ SetEntry(KeyOf[r], "failed")
      BY <2>4 DEF ReplaceFails, Refuse, Inv, HandlerInv, Active
    <3> QED
      BY <1>0, <2>k, <3>1, RefusalRefuses DEF Promise!Next
  <2>5. CASE Replace(r) \/ ReplyLost(r)
    BY <2>5, <2>k, ReplaceApplies DEF Promise!Next
  <2>6. CASE Finalize(r)
    <3>1. entry[KeyOf[r]] = "pending" /\ KeyOf[r] \in effect /\ UNCHANGED <<effect, unheard>>
      BY <2>6 DEF Finalize, Inv, HandlerInv, Active
    <3>2. CASE Complete(KeyOf[r])
      BY <2>k, <3>1, <3>2, CompletionSucceeds DEF Promise!Next
    <3>3. CASE SetEntry(KeyOf[r], "submitted_unconfirmed")
      BY <2>k, <3>1, <3>3, SameReport DEF SetEntry, TypeOK
    <3> QED
      BY <1>0, <2>6, <3>1, <3>2, <3>3 DEF Finalize
  <2> QED
    BY <1>2, <2>1, <2>2, <2>3, <2>4, <2>5, <2>6 DEF HandlerStep
<1>3. ASSUME NEW k \in Keys, LookUp(k) PROVE UNCHANGED <<effect, Reported>>
  BY <1>0, <1>3 DEF LookUp
<1>4. CASE Settle
  <2>1. /\ looked.key \in Keys /\ entry[looked.key] = "pending"
        /\ looked.found <=> looked.key \in effect
        /\ UNCHANGED <<effect, unheard>>
    BY <1>4 DEF Settle, Inv, LookedInv, TypeOK
  <2>2. CASE looked.found
    BY <1>4, <2>1, <2>2, CompletionSucceeds DEF Settle, Promise!Next
  <2>3. CASE ~looked.found
    BY <1>4, <2>1, <2>3, RefusalRefuses DEF Settle, Promise!Next
  <2> QED
    BY <2>2, <2>3
<1>5. CASE Finish \/ Report \/ Crash \/ SwitchHalt
  BY <1>0, <1>5 DEF Finish, Report, Crash, SwitchHalt
<1> QED
  BY <1>1, <1>2, <1>3, <1>4, <1>5 DEF Next

\* The refinement: for any number of keys and repeated requests, with crashes
\* between any two phases, failed writes, a halt and reconciliation beside the
\* handlers, modify_order implements AtomicReplace.
THEOREM ModifyIsAtomic == Spec => ImplementsPromise
<1>1. Init => Promise!Init
  BY DEF Init, Promise!Init, Reported
<1> QED
  BY <1>1, StepKeepsPromise, InvAlways, PTL DEF Spec, ImplementsPromise, Promise!Spec
===============================================================================
